---- MODULE Spec2Model ----
(***************************************************************************)
(* State-machine model of the gdcli safety core: the operation ledger      *)
(* (reserve / finalize), the confirmation-token store, and the purchase    *)
(* and renew workflows of the service facade that compose them.            *)
(*                                                                         *)
(* Amounts are in cents, instants in minutes since the epoch of the model. *)
(* The wall clock is one global variable; every step of an invocation      *)
(* reads it when it runs, as the code reads time.Now() at each call.       *)
(***************************************************************************)
EXTENDS Integers, Sequences, FiniteSets, TLC

(***************************************************************************)
(* Program constants.                                                      *)
(***************************************************************************)
\* safety.TokenTTL = 10 * time.Minute
TokenTTL == 10
\* 24 * time.Hour, the width of the daily-cap window, in minutes
DayLen == 1440
\* rate.Retry(ctx, 3, ...) in every mutating workflow
RetryAttempts == 3
\* priceEstimate := 12.99 in Renew, in cents
RenewPriceEstimate == 1299
AckPhrase == "I UNDERSTAND PURCHASES ARE FINAL"

(***************************************************************************)
(* Bounds of the model and the configuration record it runs with.          *)
(***************************************************************************)
NProcs == 2
MaxCalls == 3
MaxElapsed == 11
StartOffset == 8
MaxPricePerDomain == 2000
MaxDailySpend == 3000
MaxDomainsPerDay == 2
PriceLow == 1299
PriceMid == 1800
PriceOver == 2500
PriceSmall == 500
ZoneShift == 60
NCallers == 3
LimInterval == 2
MaxLimTime == 5
LimDeadline == 3
MaxInputs == 3
MaxWorkers == 3
PoolCap == 20

Procs == 1..NProcs
Domains == {"a.com"}
\* the domain argument of a confirm may differ from the token's
ConfirmDomains == Domains \cup {"b.com"}
TickSteps == {6, 11}
StartNow == DayLen - StartOffset
MaxNow == StartNow + MaxElapsed
AvailPrices == {PriceLow, PriceMid, PriceOver}

NoTok == [id |-> 0, domain |-> "", price |-> 0, currency |-> "",
          issuedAt |-> 0, expiresAt |-> 0, used |-> FALSE, key |-> <<>>]

VARIABLES
    ledger,     \* operations.jsonl: sequence of store.Operation
    tokens,     \* confirm_tokens.json: TokenStore.Tokens
    nextTok,    \* number of token ids handed out so far, plus one
    now,        \* wall clock
    cfgAuto,    \* Config.AutoPurchaseEnabled
    cfgAck,     \* Config.AcknowledgmentHash
    proc,       \* per invocation: position and locals
    calls,      \* invocations started so far
    okKeys,     \* history: operation ids whose provider mutation returned success
    dupKeys,    \* history: operation ids whose provider mutation returned success twice
    lateKeys,   \* history: operation ids for which a call was issued after a success
    failedToks, \* history: tokens whose confirm ended in exhausted retries
    markedToks, \* history: tokens the store has held with used = true
    cons,       \* direct consumers of a token: position and the store they loaded
    tokLock,    \* holder of the advisory lock on confirm_tokens.json, 0 if free
    usedOnce,   \* history: tokens some consumer consumed
    usedTwice,  \* history: tokens consumed by two consumers
    refusedAfter, \* history: tokens a consumer was refused after another consumed them
    build,      \* the platform of the build: which lockFile is compiled in
    resSum,     \* history: per day, the amounts of the reservations made
    resCnt,     \* history: per day, the number of reservations made
    resLast,    \* history: the last direct call of reserveOperation and its answer
    setLast,    \* history: the last settings auto-purchase call and its answer
    tz,         \* offset of the local time zone of the processes from UTC
    rt,         \* one run of rate.Retry: position, attempts, answers, result
    lim,        \* the Limiter and the goroutines inside Limiter.Wait
    route,      \* one routed call: the calls observed and the response
    rnw,        \* one attempt of Renew at the provider: the calls observed
    pool,       \* one bulk worker pool: jobs, workers, channels, results
    cli         \* one invocation of the command line: channels and exit code

\* what only the direct callers of the token store and of the reservation change
netVars == <<rt, lim, route>>

cliVars == <<rnw, pool, cli>>

auxVars == <<cons, tokLock, usedOnce, usedTwice, refusedAfter, build, resSum, resCnt,
             resLast, tz, netVars, cliVars>>

vars == <<ledger, tokens, nextTok, now, cfgAuto, cfgAck, proc, calls,
          okKeys, dupKeys, lateKeys, failedToks, markedToks, setLast, auxVars>>

(***************************************************************************)
(* Helpers.                                                                *)
(***************************************************************************)
Min(S) == CHOOSE x \in S : \A y \in S : x <= y

Max(S) == CHOOSE x \in S : \A y \in S : x >= y

\* time.Date(y, m, d, 0, 0, 0, 0, loc): the instant of the local midnight of
\* the day of t, in the zone whose offset from UTC is tz
DayStart(t) == ((t + tz) \div DayLen) * DayLen - tz

\* now.UTC().Format("2006-01-02")
DayStamp(t) == t \div DayLen

\* the aggregation overlooks pending entries
CountsToday_SucceededOnly(op, dayStart) ==
    /\ ~(op.createdAt < dayStart)
    /\ op.createdAt < dayStart + DayLen
    /\ op.type \in {"purchase", "renew"}
    /\ op.status = "succeeded"

\* the entries a daily aggregation counts: created in [dayStart, dayEnd),
\* type purchase or renew, status succeeded or pending
CountsToday(op, dayStart) ==
    /\ ~(op.createdAt < dayStart)
    /\ op.createdAt < dayStart + DayLen
    /\ op.type \in {"purchase", "renew"}
    /\ op.status \in {"succeeded", "pending"}

RECURSIVE SumAmounts(_, _)
SumAmounts(ops, S) ==
    IF S = {} THEN 0
    ELSE LET i == Min(S) IN ops[i].amount + SumAmounts(ops, S \ {i})

(***************************************************************************)
(* internal/budget, internal/idempotency, internal/safety (pure parts).    *)
(***************************************************************************)
\* the currency is checked, the cap is not
CheckPrice_NoCap(price, currency) ==
    IF currency # "USD" THEN "validation" ELSE ""

\* "" is the nil error; any other value is the apperr.Code of the error
CheckPrice(price, currency) ==
    IF currency # "USD" THEN "validation"
    ELSE IF price > MaxPricePerDomain THEN "budget"
    ELSE ""

\* budget.CheckDailyCaps reads the ledger without the lock and counts
\* succeeded entries only
CheckDailyCaps(ops, t, candidatePrice) ==
    LET dayStart == DayStart(t)
        S == {i \in DOMAIN ops :
                /\ ~(ops[i].createdAt < dayStart)
                /\ ops[i].createdAt < dayStart + DayLen
                /\ ops[i].status = "succeeded"
                /\ ops[i].type \in {"purchase", "renew"}}
    IN  IF SumAmounts(ops, S) + candidatePrice > MaxDailySpend THEN "budget"
        ELSE IF Cardinality(S) + 1 > MaxDomainsPerDay THEN "budget"
        ELSE ""

\* sha256 of "type|domain|%.2f amount|UTC day", truncated to 128 bits: the key
\* is the tuple it hashes
OperationKey(opType, domain, amount, t) == <<opType, domain, amount, DayStamp(t)>>

\* hex sha256 of the phrase: a non-empty string determined by the input
HashAcknowledgment(input) == "sha256:" \o input

\* any phrase that is not empty is accepted
EnableAutoPurchase_AnyPhrase(ack) ==
    IF ack = "" THEN [hash |-> "", err |-> "safety"]
    ELSE [hash |-> HashAcknowledgment(ack), err |-> ""]

EnableAutoPurchase(ack) ==
    IF ack # AckPhrase THEN [hash |-> "", err |-> "safety"]
    ELSE [hash |-> HashAcknowledgment(ack), err |-> ""]

\* the flag alone opens the gate
RequireAutoEnabled_FlagOnly(autoEnabled, ackHash) ==
    IF ~autoEnabled THEN "safety" ELSE ""

RequireAutoEnabled(autoEnabled, ackHash) ==
    IF ~autoEnabled \/ ackHash = "" THEN "safety" ELSE ""

\* the default branch answers 1, the status of a generic shell failure
ExitCode_UnknownIsOne(code) ==
    CASE code = "" -> 0
      [] code = "validation" -> 2
      [] code = "auth" -> 3
      [] code = "rate_limited" -> 4
      [] code \in {"provider", "internal"} -> 5
      [] code = "budget" -> 6
      [] code = "confirmation" -> 7
      [] code = "safety" -> 8
      [] code = "partial" -> 9
      [] OTHER -> 1

\* apperr.ExitCode on the code of an AppError; "" is the nil error, and the
\* default branch covers every other code
ExitCode(code) ==
    CASE code = "" -> 0
      [] code = "validation" -> 2
      [] code = "auth" -> 3
      [] code = "rate_limited" -> 4
      [] code \in {"provider", "internal"} -> 5
      [] code = "budget" -> 6
      [] code = "confirmation" -> 7
      [] code = "safety" -> 8
      [] code = "partial" -> 9
      [] OTHER -> 5

\* An error value is the chain errors.As walks, outermost first: each link is
\* an *AppError with its Code, or an error of another type.  The empty chain
\* is the nil error.
NilErr == <<>>

AppErr(code) == <<[app |-> TRUE, code |-> code]>>

\* an error of the os, json or store packages
PlainErr == <<[app |-> FALSE, code |-> ""]>>

\* fmt.Errorf("...: %w", cause) and AppError.Cause: a link put around an error
Wrapping(link, cause) == link \o cause

\* apperr.As: the first *AppError of the chain
As(err) ==
    LET hits == {i \in DOMAIN err : err[i].app}
    IN  IF hits = {} THEN [ok |-> FALSE, code |-> ""]
        ELSE [ok |-> TRUE,
              code |-> err[CHOOSE i \in hits : \A j \in hits : i <= j].code]

\* apperr.ExitCode on an error value: nil, an error without an *AppError in
\* its chain, then the switch on the Code, where the empty Code of
\* AppError{} falls to the default branch like every unlisted one
ExitCodeOf(err) ==
    IF err = NilErr THEN 0
    ELSE IF ~As(err).ok THEN 5
    ELSE IF As(err).code = "" THEN ExitCode("unlisted")
    ELSE ExitCode(As(err).code)

(***************************************************************************)
(* The operation ledger.                                                   *)
(***************************************************************************)
\* load-lock-mutate-save over operations.jsonl: the mutator's result is
\* persisted unless the mutator returned an error
LoadAndSaveOperations(ops, res) == IF res.err = "" THEN res.ops ELSE ops

\* reserveOperation with parts of it left out: the scan overlooks the entries
\* whose status is in blind, answers a pending entry like a succeeded one when
\* pendingDone, and appends the pending entry only when writes
reserveAltered(ops, opType, domain, amount, currency, operationID, t,
               blind, pendingDone, writes) ==
    LET hits == {i \in DOMAIN ops :
                    /\ ops[i].id = operationID
                    /\ ops[i].status \in ({"succeeded", "pending"} \ blind)}
        dayStart == DayStart(t)
        S == {i \in DOMAIN ops :
                /\ ~(ops[i].createdAt < dayStart)
                /\ ops[i].createdAt < dayStart + DayLen
                /\ ops[i].type \in {"purchase", "renew"}
                /\ ops[i].status \in {"succeeded", "pending"}}
        first == CHOOSE i \in hits : \A j \in hits : i <= j
    IN  IF hits # {}
        THEN IF ops[first].status = "succeeded" \/ pendingDone
             THEN [ops |-> ops, already |-> TRUE, err |-> ""]
             ELSE [ops |-> ops, already |-> FALSE, err |-> "rate_limited"]
        ELSE IF SumAmounts(ops, S) + amount > MaxDailySpend
        THEN [ops |-> ops, already |-> FALSE, err |-> "budget"]
        ELSE IF Cardinality(S) + 1 > MaxDomainsPerDay
        THEN [ops |-> ops, already |-> FALSE, err |-> "budget"]
        ELSE [ops |-> IF writes
                      THEN Append(ops, [id |-> operationID, type |-> opType,
                                        domain |-> domain, amount |-> amount,
                                        currency |-> currency, createdAt |-> t,
                                        status |-> "pending"])
                      ELSE ops,
              already |-> FALSE, err |-> ""]

\* no dedupe by operation_id at all
reserveOperation_NoDedupe(ops, opType, domain, amount, currency, operationID, t) ==
    reserveAltered(ops, opType, domain, amount, currency, operationID, t,
                   {"succeeded", "pending"}, FALSE, TRUE)

\* a pending entry of the id does not block
reserveOperation_PendingUnseen(ops, opType, domain, amount, currency, operationID, t) ==
    reserveAltered(ops, opType, domain, amount, currency, operationID, t,
                   {"pending"}, FALSE, TRUE)

\* a succeeded entry of the id is not recognised
reserveOperation_SucceededUnseen(ops, opType, domain, amount, currency, operationID, t) ==
    reserveAltered(ops, opType, domain, amount, currency, operationID, t,
                   {"succeeded"}, FALSE, TRUE)

\* a pending entry of the id is answered like a succeeded one
reserveOperation_PendingAsDone(ops, opType, domain, amount, currency, operationID, t) ==
    reserveAltered(ops, opType, domain, amount, currency, operationID, t,
                   {}, TRUE, TRUE)

\* the pending entry is never appended
reserveOperation_NoAppend(ops, opType, domain, amount, currency, operationID, t) ==
    reserveAltered(ops, opType, domain, amount, currency, operationID, t,
                   {}, FALSE, FALSE)

\* the spend cap is checked, the count cap is not
reserveOperation_NoCountCap(ops, opType, domain, amount, currency, operationID, t) ==
    LET hits == {i \in DOMAIN ops :
                    /\ ops[i].id = operationID
                    /\ ops[i].status \in {"succeeded", "pending"}}
        dayStart == DayStart(t)
        S == {i \in DOMAIN ops : CountsToday(ops[i], dayStart)}
    IN  IF hits # {}
        THEN IF ops[Min(hits)].status = "succeeded"
             THEN [ops |-> ops, already |-> TRUE, err |-> ""]
             ELSE [ops |-> ops, already |-> FALSE, err |-> "rate_limited"]
        ELSE IF SumAmounts(ops, S) + amount > MaxDailySpend
        THEN [ops |-> ops, already |-> FALSE, err |-> "budget"]
        ELSE [ops |-> Append(ops, [id |-> operationID, type |-> opType,
                                   domain |-> domain, amount |-> amount,
                                   currency |-> currency, createdAt |-> t,
                                   status |-> "pending"]),
              already |-> FALSE, err |-> ""]

\* the mutator of reserveOperation, on the ledger contents ops
reserveOperation(ops, opType, domain, amount, currency, operationID, t) ==
    LET hits == {i \in DOMAIN ops :
                    /\ ops[i].id = operationID
                    /\ ops[i].status \in {"succeeded", "pending"}}
        dayStart == DayStart(t)
        S == {i \in DOMAIN ops : CountsToday(ops[i], dayStart)}
        totalSpend == SumAmounts(ops, S)
        totalDomains == Cardinality(S)
    IN  IF hits # {}
        THEN IF ops[Min(hits)].status = "succeeded"
             THEN [ops |-> ops, already |-> TRUE, err |-> ""]
             ELSE [ops |-> ops, already |-> FALSE, err |-> "rate_limited"]
        ELSE IF totalSpend + amount > MaxDailySpend
        THEN [ops |-> ops, already |-> FALSE, err |-> "budget"]
        ELSE IF totalDomains + 1 > MaxDomainsPerDay
        THEN [ops |-> ops, already |-> FALSE, err |-> "budget"]
        ELSE [ops |-> Append(ops, [id |-> operationID, type |-> opType,
                                   domain |-> domain, amount |-> amount,
                                   currency |-> currency, createdAt |-> t,
                                   status |-> "pending"]),
              already |-> FALSE, err |-> ""]

\* finalizeOperation that rewrites every entry of the operation_id instead of
\* the last one
finalizeOperation_UpdatesAll(ops, operationID, amount, currency, status, t) ==
    LET same == {i \in DOMAIN ops : ops[i].id = operationID}
    IN  IF same = {}
        THEN [ops |-> Append(ops, [id |-> operationID, type |-> "unknown",
                                   domain |-> "", amount |-> amount,
                                   currency |-> currency, createdAt |-> t,
                                   status |-> status]),
              err |-> ""]
        ELSE LET index == CHOOSE i \in same : \A j \in same : i >= j
                 dayStart == DayStart(ops[index].createdAt)
                 S == {i \in DOMAIN ops : i # index /\ CountsToday(ops[i], dayStart)}
                 over == /\ status = "succeeded"
                         /\ \/ SumAmounts(ops, S) + amount > MaxDailySpend
                            \/ Cardinality(S) + 1 > MaxDomainsPerDay
                 final == IF over THEN "failed" ELSE status
             IN  [ops |-> [i \in DOMAIN ops |->
                             IF i \in same
                             THEN [ops[i] EXCEPT !.amount = amount,
                                                 !.currency = IF currency # "" THEN currency
                                                              ELSE ops[i].currency,
                                                 !.status = final]
                             ELSE ops[i]],
                  err |-> IF over THEN "budget" ELSE ""]

\* finalizeOperation with parts of it left out: a failed finalization leaves
\* the status of the entry alone unless marks, the caps are checked again only
\* when rechecks, and the policy error is handed back only when surfaces
finalizeAltered(ops, operationID, amount, currency, status, t,
                marks, rechecks, surfaces) ==
    LET same == {i \in DOMAIN ops : ops[i].id = operationID}
    IN  IF same = {}
        THEN [ops |-> Append(ops, [id |-> operationID, type |-> "unknown",
                                   domain |-> "", amount |-> amount,
                                   currency |-> currency, createdAt |-> t,
                                   status |-> status]),
              err |-> ""]
        ELSE LET index == CHOOSE i \in same : \A j \in same : i >= j
                 op == ops[index]
                 dayStart == DayStart(op.createdAt)
                 S == {i \in DOMAIN ops : i # index /\ CountsToday(ops[i], dayStart)}
                 over == /\ rechecks
                         /\ status = "succeeded"
                         /\ \/ SumAmounts(ops, S) + amount > MaxDailySpend
                            \/ Cardinality(S) + 1 > MaxDomainsPerDay
                 final == IF over THEN "failed"
                          ELSE IF status = "failed" /\ ~marks THEN op.status
                          ELSE status
             IN  [ops |-> [ops EXCEPT ![index] =
                             [op EXCEPT !.amount = amount,
                                        !.currency = IF currency # "" THEN currency
                                                     ELSE op.currency,
                                        !.status = final]],
                  err |-> IF over /\ surfaces THEN "budget" ELSE ""]

\* a failed finalization leaves the entry pending
finalizeOperation_KeepsPending(ops, operationID, amount, currency, status, t) ==
    finalizeAltered(ops, operationID, amount, currency, status, t, FALSE, TRUE, TRUE)

\* the caps are not checked again at finalization
finalizeOperation_NoRecheck(ops, operationID, amount, currency, status, t) ==
    finalizeAltered(ops, operationID, amount, currency, status, t, TRUE, FALSE, TRUE)

\* the entry is written failed by the re-check, the budget error is dropped
finalizeOperation_SilentRecheck(ops, operationID, amount, currency, status, t) ==
    finalizeAltered(ops, operationID, amount, currency, status, t, TRUE, TRUE, FALSE)

\* the finalized record is appended next to the pending one instead of
\* taking its place
finalizeOperation_Appends(ops, operationID, amount, currency, status, t) ==
    LET same == {i \in DOMAIN ops : ops[i].id = operationID}
        res == finalizeAltered(ops, operationID, amount, currency, status, t,
                               TRUE, TRUE, TRUE)
    IN  IF same = {} THEN res
        ELSE LET index == CHOOSE i \in same : \A j \in same : i >= j
             IN  [ops |-> Append(ops, res.ops[index]), err |-> res.err]

\* the mutator of finalizeOperation; err is the policy error it hands back
finalizeOperation(ops, operationID, amount, currency, status, t) ==
    LET same == {i \in DOMAIN ops : ops[i].id = operationID}
    IN  IF same = {}
        THEN [ops |-> Append(ops, [id |-> operationID, type |-> "unknown",
                                   domain |-> "", amount |-> amount,
                                   currency |-> currency, createdAt |-> t,
                                   status |-> status]),
              err |-> ""]
        ELSE LET index == Max(same)
                 op == ops[index]
                 dayStart == DayStart(op.createdAt)
                 S == {i \in DOMAIN ops : i # index /\ CountsToday(ops[i], dayStart)}
                 over == /\ status = "succeeded"
                         /\ \/ SumAmounts(ops, S) + amount > MaxDailySpend
                            \/ Cardinality(S) + 1 > MaxDomainsPerDay
                 final == IF over THEN "failed" ELSE status
             IN  [ops |-> [ops EXCEPT ![index] =
                             [op EXCEPT !.amount = amount,
                                        !.currency = IF currency # "" THEN currency
                                                     ELSE op.currency,
                                        !.status = final]],
                  err |-> IF over THEN "budget" ELSE ""]

(***************************************************************************)
(* The confirmation-token store.                                           *)
(***************************************************************************)
\* load-lock-mutate-save over confirm_tokens.json: nothing is written when
\* the mutator returns an error
LoadAndSaveTokens(ts, res) == IF res.mutErr = "" THEN res.ts ELSE ts

pruneTokens(ts, t) ==
    SelectSeq(ts, LAMBDA tok : ~tok.used /\ ~(t > tok.expiresAt))

IssueToken(ts, tokenID, domain, price, currency, operationKey, t) ==
    LET tok == [id |-> tokenID, domain |-> domain, price |-> price,
                currency |-> currency, issuedAt |-> t, expiresAt |-> t + TokenTTL,
                used |-> FALSE, key |-> operationKey]
    IN  [ts |-> Append(pruneTokens(ts, t), tok), mutErr |-> "", err |-> "", tok |-> tok]

\* the domain of the token is not compared with the domain of the call
ValidateAndUseToken_AnyDomain(ts, tokenID, domain, t) ==
    LET kept == SelectSeq(ts, LAMBDA tok : ~tok.used /\ ~(t > tok.expiresAt))
        hits == {i \in DOMAIN kept : kept[i].id = tokenID}
    IN  IF hits = {}
        THEN [ts |-> kept, mutErr |-> "", err |-> "confirmation", tok |-> NoTok]
        ELSE LET i == CHOOSE h \in hits : \A j \in hits : h <= j
                 tok == kept[i]
             IN  [ts |-> [kept EXCEPT ![i].used = TRUE], mutErr |-> "",
                  err |-> "", tok |-> [tok EXCEPT !.used = TRUE]]

\* the mutator of ValidateAndUseToken and what the function returns: prune,
\* then the first token with the id decides; a token that is not found leaves
\* the mutator without an error, so the pruned store is saved
ValidateAndUseToken(ts, tokenID, domain, t) ==
    LET kept == pruneTokens(ts, t)
        hits == {i \in DOMAIN kept : kept[i].id = tokenID}
    IN  IF hits = {}
        THEN [ts |-> kept, mutErr |-> "", err |-> "confirmation", tok |-> NoTok]
        ELSE LET i == Min(hits)
                 tok == kept[i]
             IN  IF tok.domain # domain \/ tok.used \/ t > tok.expiresAt
                 THEN [ts |-> kept, mutErr |-> "confirmation",
                       err |-> "confirmation", tok |-> NoTok]
                 ELSE [ts |-> [kept EXCEPT ![i].used = TRUE], mutErr |-> "",
                       err |-> "", tok |-> [tok EXCEPT !.used = TRUE]]

\* Validate: prune, locate by id; a confirmation error for not found, domain
\* mismatch, already used, expired; the token snapshot without marking it used
ValidateToken(ts, tokenID, domain, t) ==
    LET kept == pruneTokens(ts, t)
        hits == {i \in DOMAIN kept : kept[i].id = tokenID}
    IN  IF hits = {}
        THEN [ts |-> kept, mutErr |-> "", err |-> "confirmation", tok |-> NoTok]
        ELSE LET tok == kept[Min(hits)]
             IN  IF tok.domain # domain \/ tok.used \/ t > tok.expiresAt
                 THEN [ts |-> kept, mutErr |-> "confirmation",
                       err |-> "confirmation", tok |-> NoTok]
                 ELSE [ts |-> kept, mutErr |-> "", err |-> "", tok |-> tok]

\* the token is left unmarked (a mark-used step that forgets the write)
MarkTokenUsed_NoWrite(ts, tokenID, domain, t) ==
    LET kept == pruneTokens(ts, t)
        hits == {i \in DOMAIN kept : kept[i].id = tokenID}
    IN  IF hits = {}
        THEN [ts |-> kept, mutErr |-> "", err |-> "confirmation", tok |-> NoTok]
        ELSE [ts |-> kept, mutErr |-> "", err |-> "", tok |-> kept[Min(hits)]]

\* MarkUsed: prune, locate, set used = true
MarkTokenUsed(ts, tokenID, domain, t) ==
    LET kept == pruneTokens(ts, t)
        hits == {i \in DOMAIN kept : kept[i].id = tokenID}
    IN  IF hits = {}
        THEN [ts |-> kept, mutErr |-> "", err |-> "confirmation", tok |-> NoTok]
        ELSE LET i == Min(hits)
             IN  [ts |-> [kept EXCEPT ![i].used = TRUE], mutErr |-> "",
                  err |-> "", tok |-> [kept[i] EXCEPT !.used = TRUE]]

(***************************************************************************)
(* Invocations of the service facade.  Each process runs one workflow at a *)
(* time; a step is one transaction on a store, or one provider call.       *)
(***************************************************************************)
Idle == [pc |-> "idle", wf |-> "", dom |-> "", tokId |-> 0, key |-> <<>>,
         amt |-> 0, cur |-> "", perr |-> "", rprice |-> 0,
         rcur |-> "", ret |-> "", pfail |-> FALSE, exp |-> 0, lapsed |-> FALSE]

\* what Availability can answer: an error, or (available, price, currency)
AvailOutcomes ==
    {[err |-> "provider", available |-> FALSE, price |-> 0, currency |-> "USD"],
     [err |-> "", available |-> FALSE, price |-> 0, currency |-> "USD"]}
    \cup {[err |-> "", available |-> TRUE, price |-> pr, currency |-> "USD"] :
            pr \in AvailPrices}

\* the answers of the attempts of one retry loop: some retryable failures,
\* then one last answer
AttemptSeqs ==
    {[i \in 1..RetryAttempts |-> IF i <= k THEN "retryable" ELSE o] :
        k \in 0..(RetryAttempts - 1), o \in {"ok", "retryable", "fatal", "cancelled"}}

\* the price and currency a successful Purchase / Renew can report
ProviderResults(quoted) ==
    {[price |-> 0, currency |-> ""], [price |-> quoted, currency |-> "USD"],
     [price |-> PriceMid, currency |-> "USD"], [price |-> PriceOver, currency |-> "USD"],
     [price |-> quoted, currency |-> "EUR"]}

Free(p) == proc[p].pc \in {"idle", "done"}

\* a new invocation takes the lowest free slot (the slots are interchangeable)
CanStart(p) ==
    /\ Free(p)
    /\ \A q \in Procs : q < p => ~Free(q)
    /\ calls < MaxCalls

Begin(p, wf, d) == [Idle EXCEPT !.wf = wf, !.dom = d]

\* the invocation has returned code; its locals are gone, only what it was
\* called with, what it quoted and what it returned are kept
Return(r, code) == [Idle EXCEPT !.pc = "done", !.wf = r.wf, !.tokId = r.tokId,
                                !.key = r.key, !.amt = r.amt, !.ret = code,
                                !.pfail = r.pfail,
                                !.lapsed = r.lapsed]

IdleCons == [pc |-> "idle", op |-> "", tokId |-> 0, dom |-> "", t |-> 0,
             loaded |-> <<>>, ret |-> ""]

Builds == {"unix", "windows"}

\* the calendar days the clock of the model passes through
Days == DayStamp(StartNow)..DayStamp(MaxNow)

NoReserve == [n |-> 0, opType |-> "", domain |-> "", amount |-> 0,
              already |-> FALSE, err |-> ""]

NoSetting == [op |-> "", ack |-> "", err |-> "", auto |-> FALSE, hash |-> ""]

\* an error value: the code of the AppError, its Retryable flag and what its
\* Cause is; NoErr is nil, CtxErr the ctx.Err() of a context whose deadline fired
NoErr == [code |-> "", retryable |-> FALSE, cause |-> ""]

CtxErr == [code |-> "cancelled", retryable |-> FALSE, cause |-> ""]

\* no run of rate.Retry: attempts as passed, n as clamped, i the loop index,
\* hist the answers of fn so far, fired where the deadline fired ("" not yet)
\* and firedMade the invocations of fn made by then
IdleRetry == [pc |-> "idle", attempts |-> 0, n |-> 0, i |-> 0, hist |-> <<>>,
              ret |-> NoErr, fired |-> "", firedMade |-> 0]

\* the goroutines that call Limiter.Wait on the one Limiter of the runtime
Callers == 1..NCallers

\* a goroutine outside Wait: arr is its rank among the calls of Wait, slot the
\* value of next it computed, deadline that of its ctx, at the time it returned
IdleCaller == [pc |-> "idle", arr |-> 0, slot |-> 0, deadline |-> 0,
               ret |-> NoErr, at |-> 0]

\* NewLimiter: last is the zero time, long before the clock t of the process;
\* mu is the holder of the mutex (0 when free), queue the goroutines blocked
\* in mu.Lock in the order they blocked
IdleLimiter == [last |-> 0, t |-> LimInterval, mu |-> 0, queue |-> <<>>,
                arrived |-> 0, g |-> [c \in Callers |-> IdleCaller]]

\* no routed call made yet: seen are the provider calls observed, in order;
\* out, ver and err what the workflow returned
IdleRoute == [wf |-> "", customerID |-> "", seen |-> <<>>, v2 |-> NoErr, v1 |-> NoErr,
              out |-> "", ver |-> "", err |-> NoErr]

\* no attempt of Renew at the provider yet: cands are the customer ids tried
\* on v2, det the detail answered for each, seen the provider calls observed
IdleRenew == [pc |-> "idle", cands |-> <<>>, det |-> <<>>, seen |-> <<>>,
              v1 |-> NoErr, ver |-> "", err |-> NoErr]

\* the zero value of an item of a bulk result
ZeroItem == [index |-> 0, input |-> "", success |-> FALSE]

\* no partial error
NoPartial == [code |-> "", failed |-> 0, total |-> 0]

\* no bulk call yet.  next is the index of the next job the caller sends, w
\* the workers, results the buffered channel, out and err what the call
\* returns, recs the records the command emits; looked is the history of the
\* lookups: for each input how often it was looked up and whether the last
\* lookup succeeded, arrival the indexes in the order their results were sent
IdlePool == [pc |-> "idle", wf |-> "", inputs |-> <<>>, conc |-> 0, next |-> 0,
             jobsClosed |-> FALSE, resultsClosed |-> FALSE, cancelled |-> FALSE,
             w |-> <<>>, results |-> <<>>, out |-> <<>>, failures |-> 0,
             err |-> NoPartial, recs |-> <<>>, looked |-> <<>>, arrival |-> <<>>]

\* no invocation of the binary yet: nothing on either channel
NoArgs == [cmd |-> "", quiet |-> FALSE, ndjson |-> FALSE, cfgOK |-> TRUE,
           prod |-> FALSE, cache |-> "none", envOff |-> FALSE]

NoOutcome == [pre |-> "", reserve |-> "ok", provider |-> "ok", finalize |-> "ok",
              dryRun |-> FALSE, failed |-> 0, total |-> 0, listed |-> TRUE,
              outOK |-> TRUE]

IdleCli == [pc |-> "idle", args |-> NoArgs, svc |-> NoOutcome, out |-> <<>>,
            errOut |-> <<>>, ret |-> NilErr, exit |-> 0, upd |-> "off",
            bought |-> FALSE]

\* empty stores and no invocation, whatever the configuration file holds
InitFiles ==
    /\ ledger = <<>>
    /\ tokens = <<>>
    /\ nextTok = 1
    /\ now = StartNow
    /\ proc = [p \in Procs |-> Idle]
    /\ calls = 0
    /\ okKeys = {}
    /\ dupKeys = {}
    /\ lateKeys = {}
    /\ failedToks = {}
    /\ markedToks = {}
    /\ cons = [p \in Procs |-> IdleCons]
    /\ tokLock = 0
    /\ usedOnce = {}
    /\ usedTwice = {}
    /\ refusedAfter = {}
    /\ resSum = [d \in Days |-> 0]
    /\ resCnt = [d \in Days |-> 0]
    /\ resLast = NoReserve
    /\ setLast = NoSetting
    /\ rt = IdleRetry
    /\ lim = IdleLimiter
    /\ route = IdleRoute
    /\ rnw = IdleRenew
    /\ pool = IdlePool
    /\ cli = IdleCli

\* the state of a fresh home directory, on either build and in any zone:
\* config.Default() has auto-purchase off and no acknowledgment
InitStores == InitFiles /\ cfgAuto = FALSE /\ cfgAck = ""

\* the workflows are modelled on the build whose lockFile locks, with the
\* local zone at UTC
Init == InitStores /\ build = "unix" /\ tz = 0

\* the dry run quotes without the daily-cap check
DryRunCheck_SkipsCaps(p, d, avail) ==
    /\ CanStart(p)
    /\ calls' = calls + 1
    /\ LET r == Begin(p, "dryrun", d)
           e == IF avail.err # "" THEN avail.err
                ELSE IF ~avail.available THEN "validation"
                ELSE CheckPrice(avail.price, avail.currency)
       IN  proc' = [proc EXCEPT ![p] =
                      IF e # "" THEN Return(r, e)
                      ELSE [r EXCEPT !.pc = "dry_issue", !.amt = avail.price,
                                     !.cur = avail.currency]]
    /\ UNCHANGED <<ledger, tokens, nextTok, now, cfgAuto, cfgAck,
                   okKeys, dupKeys, lateKeys, failedToks, markedToks, setLast, auxVars>>

\* PurchaseDryRun up to the daily-cap check: Availability, CheckPrice,
\* CheckDailyCaps on the ledger as it is read now
DryRunCheck(p, d, avail) ==
    /\ CanStart(p)
    /\ calls' = calls + 1
    /\ LET r == Begin(p, "dryrun", d)
           e == IF avail.err # "" THEN avail.err
                ELSE IF ~avail.available THEN "validation"
                ELSE IF CheckPrice(avail.price, avail.currency) # ""
                     THEN CheckPrice(avail.price, avail.currency)
                ELSE CheckDailyCaps(ledger, now, avail.price)
       IN  proc' = [proc EXCEPT ![p] =
                      IF e # "" THEN Return(r, e)
                      ELSE [r EXCEPT !.pc = "dry_issue", !.amt = avail.price,
                                     !.cur = avail.currency]]
    /\ UNCHANGED <<ledger, tokens, nextTok, now, cfgAuto, cfgAck,
                   okKeys, dupKeys, lateKeys, failedToks, markedToks, setLast, auxVars>>

\* PurchaseDryRun: OperationKey and IssueToken
DryRunIssue(p) ==
    /\ proc[p].pc = "dry_issue"
    /\ LET r == proc[p]
           opKey == OperationKey("purchase", r.dom, r.amt, now)
           res == IssueToken(tokens, nextTok, r.dom, r.amt, r.cur, opKey, now)
       IN  /\ tokens' = LoadAndSaveTokens(tokens, res)
           /\ proc' = [proc EXCEPT ![p] =
                         Return([r EXCEPT !.tokId = res.tok.id, !.key = opKey], "ok")]
    /\ nextTok' = nextTok + 1
    /\ UNCHANGED <<ledger, now, cfgAuto, cfgAck, calls,
                   okKeys, dupKeys, lateKeys, failedToks, markedToks, setLast, auxVars>>

\* PurchaseConfirm: ValidateToken, then CheckPrice on the quoted price
ConfirmValidate(p, d, tokenID) ==
    /\ CanStart(p)
    /\ calls' = calls + 1
    /\ LET r == [Begin(p, "confirm", d) EXCEPT !.tokId = tokenID]
           res == ValidateToken(tokens, tokenID, d, now)
           e == IF res.err # "" THEN res.err
                ELSE CheckPrice(res.tok.price, res.tok.currency)
       IN  /\ tokens' = LoadAndSaveTokens(tokens, res)
           /\ proc' = [proc EXCEPT ![p] =
                         IF e # "" THEN Return(r, e)
                         ELSE [r EXCEPT !.pc = "reserve", !.key = res.tok.key,
                                        !.exp = res.tok.expiresAt,
                                        !.amt = res.tok.price,
                                        !.cur = res.tok.currency]]
    /\ UNCHANGED <<ledger, nextTok, now, cfgAuto, cfgAck,
                   okKeys, dupKeys, lateKeys, failedToks, markedToks, setLast, auxVars>>

\* PurchaseAuto up to the reservation: RequireAutoEnabled, Availability,
\* CheckPrice
AutoStart(p, d, avail) ==
    /\ CanStart(p)
    /\ calls' = calls + 1
    /\ LET r == Begin(p, "auto", d)
           e == IF RequireAutoEnabled(cfgAuto, cfgAck) # "" THEN "safety"
                ELSE IF avail.err # "" THEN avail.err
                ELSE IF ~avail.available THEN "validation"
                ELSE CheckPrice(avail.price, avail.currency)
       IN  proc' = [proc EXCEPT ![p] =
                      IF e # "" THEN Return(r, e)
                      ELSE [r EXCEPT !.pc = "reserve", !.amt = avail.price,
                                     !.cur = avail.currency]]
    /\ UNCHANGED <<ledger, tokens, nextTok, now, cfgAuto, cfgAck,
                   okKeys, dupKeys, lateKeys, failedToks, markedToks, setLast, auxVars>>

\* Renew without the default: the dry-run flag alone decides
RenewStart_FlagDecides(p, d, dryRunFlag, autoApprove) ==
    /\ CanStart(p)
    /\ calls' = calls + 1
    /\ LET r == Begin(p, "renew", d)
           e == CheckPrice(RenewPriceEstimate, "USD")
       IN  proc' = [proc EXCEPT ![p] =
                      IF e # "" THEN Return(r, e)
                      ELSE IF dryRunFlag THEN Return(r, "dry_run")
                      ELSE [r EXCEPT !.pc = "reserve", !.amt = RenewPriceEstimate,
                                     !.cur = "USD"]]
    /\ UNCHANGED <<ledger, tokens, nextTok, now, cfgAuto, cfgAck,
                   okKeys, dupKeys, lateKeys, failedToks, markedToks, setLast, auxVars>>

\* Renew up to the reservation: the dry-run default and CheckPrice on the
\* price estimate
RenewStart(p, d, dryRunFlag, autoApprove) ==
    /\ CanStart(p)
    /\ calls' = calls + 1
    /\ LET r == Begin(p, "renew", d)
           dryRun == IF ~dryRunFlag /\ ~autoApprove THEN TRUE ELSE dryRunFlag
           e == CheckPrice(RenewPriceEstimate, "USD")
       IN  proc' = [proc EXCEPT ![p] =
                      IF e # "" THEN Return(r, e)
                      ELSE IF dryRun THEN Return(r, "dry_run")
                      ELSE [r EXCEPT !.pc = "reserve", !.amt = RenewPriceEstimate,
                                     !.cur = "USD"]]
    /\ UNCHANGED <<ledger, tokens, nextTok, now, cfgAuto, cfgAck,
                   okKeys, dupKeys, lateKeys, failedToks, markedToks, setLast, auxVars>>

OpTypeOf(wf) == IF wf = "renew" THEN "renew" ELSE "purchase"

\* the reservation of the three mutating workflows
Reserve(p) ==
    /\ proc[p].pc = "reserve"
    /\ LET r == proc[p]
           opKey == IF r.wf = "confirm" THEN r.key
                    ELSE OperationKey(OpTypeOf(r.wf), r.dom, r.amt, now)
           res == reserveOperation(ledger, OpTypeOf(r.wf), r.dom, r.amt, r.cur,
                                   opKey, now)
           r2 == [r EXCEPT !.key = opKey]
       IN  /\ ledger' = LoadAndSaveOperations(ledger, res)
           /\ proc' = [proc EXCEPT ![p] =
                         IF res.err # "" THEN Return(r2, res.err)
                         ELSE IF res.already
                         THEN IF r.wf = "confirm"
                              THEN [r2 EXCEPT !.pc = "mark_already"]
                              ELSE Return(r2, "already")
                         ELSE [r2 EXCEPT !.pc = "call"]]
    /\ UNCHANGED <<tokens, nextTok, now, cfgAuto, cfgAck, calls,
                   okKeys, dupKeys, lateKeys, failedToks, markedToks, setLast, auxVars>>

\* rate.Retry(ctx, attempts, fn) on the answers outs[1], outs[2], ... of the
\* successive attempts: the error it returns ("" is nil) and the number of
\* attempts it made.  An attempt answers "ok", "retryable", "fatal" (an error
\* that is not retryable) or "cancelled" (Limiter.Wait returned ctx.Err()).
RECURSIVE RetryFrom(_, _, _)
RetryFrom(attempts, outs, i) ==
    IF i >= attempts THEN [err |-> "", made |-> i]
    ELSE LET o == outs[i + 1]
         IN  IF o = "ok" THEN [err |-> "", made |-> i + 1]
             ELSE IF o = "fatal" THEN [err |-> "provider", made |-> i + 1]
             ELSE IF o = "cancelled" THEN [err |-> "cancelled", made |-> i + 1]
             ELSE IF i = attempts - 1 THEN [err |-> "rate_limited", made |-> i + 1]
             ELSE RetryFrom(attempts, outs, i + 1)

Retry(attempts, outs) == RetryFrom(IF attempts < 1 THEN 1 ELSE attempts, outs, 0)

\* the retry loop around Client.Purchase / Client.Renew: outs are the answers
\* of the attempts, result what the successful attempt reports
Call(p, outs, result) ==
    /\ proc[p].pc = "call"
    /\ LET r == proc[p]
           res == Retry(RetryAttempts, outs)
           last == outs[res.made]
           \* attempts that reached the provider: all but a cancelled wait
           sent == IF last = "cancelled" THEN res.made - 1 ELSE res.made
           ok == res.err = ""
           price == IF result.price = 0 THEN r.amt ELSE result.price
           currency == IF result.currency = "" THEN r.cur ELSE result.currency
       IN  /\ proc' = [proc EXCEPT ![p] =
                IF ok
                THEN [r EXCEPT !.pc = "finalize", !.rprice = price,
                               !.rcur = currency, !.pfail = res.made > 1]
                ELSE [r EXCEPT !.pc = "finalize", !.perr = res.err, !.pfail = TRUE]]
           /\ lateKeys' = IF sent > 0 /\ r.key \in okKeys
                          THEN lateKeys \cup {r.key} ELSE lateKeys
           /\ okKeys' = IF ok THEN okKeys \cup {r.key} ELSE okKeys
           /\ dupKeys' = IF ok /\ r.key \in okKeys
                         THEN dupKeys \cup {r.key} ELSE dupKeys
           /\ failedToks' = IF res.err = "rate_limited" /\ r.wf = "confirm"
                            THEN failedToks \cup {r.tokId} ELSE failedToks
    /\ UNCHANGED <<ledger, tokens, nextTok, now, cfgAuto, cfgAck, calls, markedToks, setLast, auxVars>>

\* after the retry loop: the post-call CheckPrice and finalizeOperation
Finalize(p) ==
    /\ proc[p].pc = "finalize"
    /\ LET r == proc[p]
           price == r.rprice
           currency == r.rcur
           priceErr == CheckPrice(price, currency)
           res == IF r.perr # ""
                  THEN finalizeOperation(ledger, r.key, r.amt, r.cur, "failed", now)
                  ELSE IF priceErr # ""
                  THEN finalizeOperation(ledger, r.key, price, currency, "failed", now)
                  ELSE finalizeOperation(ledger, r.key, price, currency, "succeeded", now)
           e == IF r.perr # "" THEN r.perr
                ELSE IF priceErr # "" THEN priceErr
                ELSE res.err
       IN  /\ ledger' = LoadAndSaveOperations(ledger, [ops |-> res.ops, err |-> ""])
           /\ proc' = [proc EXCEPT ![p] =
                         IF e # "" THEN Return([r EXCEPT !.pfail = TRUE], e)
                         ELSE IF r.wf = "confirm"
                         THEN [r EXCEPT !.pc = "mark"]
                         ELSE Return(r, "ok")]
    /\ UNCHANGED <<tokens, nextTok, now, cfgAuto, cfgAck, calls,
                   okKeys, dupKeys, lateKeys, failedToks, markedToks, setLast, auxVars>>

\* the tokens a store holds with used = true
MarkedIn(ts) == {ts[i].id : i \in {j \in DOMAIN ts : ts[j].used}}

\* PurchaseConfirm: MarkTokenUsed, its error dropped, then the return
Mark(p) ==
    /\ proc[p].pc \in {"mark", "mark_already"}
    /\ LET r == proc[p]
           res == MarkTokenUsed(tokens, r.tokId, r.dom, now)
       IN  /\ tokens' = LoadAndSaveTokens(tokens, res)
           /\ proc' = [proc EXCEPT ![p] =
                         Return([r EXCEPT !.lapsed = (res.err # "" /\ now > r.exp)],
                                IF r.pc = "mark" THEN "ok" ELSE "already")]
    /\ markedToks' = markedToks \cup MarkedIn(tokens')
    /\ UNCHANGED <<ledger, nextTok, now, cfgAuto, cfgAck, calls,
                   okKeys, dupKeys, lateKeys, failedToks, setLast, auxVars>>

\* what --ack can carry: the phrase, the phrase in another case, nothing
AckInputs == {AckPhrase, "i understand purchases are final", ""}

\* settings auto-purchase enable --ack <phrase>
SettingsEnable(ack) ==
    /\ calls < MaxCalls
    /\ calls' = calls + 1
    /\ LET res == EnableAutoPurchase(ack)
       IN  /\ IF res.err # ""
              THEN UNCHANGED <<cfgAuto, cfgAck>>
              ELSE cfgAuto' = TRUE /\ cfgAck' = res.hash
           /\ setLast' = [op |-> "enable", ack |-> ack, err |-> res.err,
                          auto |-> cfgAuto, hash |-> cfgAck]
    /\ UNCHANGED <<ledger, tokens, nextTok, now, proc,
                   okKeys, dupKeys, lateKeys, failedToks, markedToks, auxVars>>

\* settings auto-purchase disable
SettingsDisable ==
    /\ calls < MaxCalls
    /\ calls' = calls + 1
    /\ cfgAuto' = FALSE
    /\ setLast' = [op |-> "disable", ack |-> "", err |-> "",
                   auto |-> cfgAuto, hash |-> cfgAck]
    /\ UNCHANGED <<ledger, tokens, nextTok, now, cfgAck, proc,
                   okKeys, dupKeys, lateKeys, failedToks, markedToks, auxVars>>

\* the wall clock advances
Tick(d) ==
    /\ now + d <= MaxNow
    /\ now' = now + d
    /\ UNCHANGED <<ledger, tokens, nextTok, cfgAuto, cfgAck, proc, calls,
                   okKeys, dupKeys, lateKeys, failedToks, markedToks, setLast, auxVars>>

Next ==
    \/ \E p \in Procs, d \in Domains, a \in AvailOutcomes : DryRunCheck(p, d, a)
    \/ \E p \in Procs : DryRunIssue(p)
    \/ \E p \in Procs, d \in ConfirmDomains, t \in 1..(nextTok - 1) : ConfirmValidate(p, d, t)
    \/ \E p \in Procs, d \in Domains, a \in AvailOutcomes : AutoStart(p, d, a)
    \/ \E p \in Procs, d \in Domains, f \in BOOLEAN, a \in BOOLEAN : RenewStart(p, d, f, a)
    \/ \E p \in Procs : Reserve(p)
    \/ \E p \in Procs, o \in AttemptSeqs : \E r \in ProviderResults(proc[p].amt) : Call(p, o, r)
    \/ \E p \in Procs : Finalize(p)
    \/ \E p \in Procs : Mark(p)
    \/ \E ack \in AckInputs : SettingsEnable(ack)
    \/ SettingsDisable
    \/ \E d \in TickSteps : Tick(d)

Spec == Init /\ [][Next]_vars

(***************************************************************************)
(* PurchaseAuto run against every configuration file: the flag and the     *)
(* acknowledgment hash are two independent fields of config.json.          *)
(***************************************************************************)
AckHashes == {"", HashAcknowledgment(AckPhrase)}

InitGate ==
    /\ InitFiles
    /\ cfgAuto \in BOOLEAN
    /\ cfgAck \in AckHashes
    /\ build = "unix"
    /\ tz = 0

NextGate ==
    \/ \E p \in Procs, d \in Domains, a \in AvailOutcomes : AutoStart(p, d, a)
    \/ \E p \in Procs : Reserve(p)
    \/ \E p \in Procs, o \in AttemptSeqs : \E r \in ProviderResults(proc[p].amt) : Call(p, o, r)
    \/ \E p \in Procs : Finalize(p)
    \/ \E d \in TickSteps : Tick(d)

SpecGate == InitGate /\ [][NextGate]_vars

(***************************************************************************)
(* Reservations called directly, one transaction each.                     *)
(***************************************************************************)
ReservePrices == {PriceSmall, PriceLow, PriceMid}

ReserveDomains == {"a.com", "b.com"}

\* one call of reserveOperation at the current time; a reservation that was
\* made (no error, not already succeeded) is added to the day's history
ReserveCall(opType, d, amount) ==
    /\ calls < MaxCalls
    /\ calls' = calls + 1
    /\ LET opKey == OperationKey(opType, d, amount, now)
           res == reserveOperation(ledger, opType, d, amount, "USD", opKey, now)
           day == (now + tz) \div DayLen
           made == res.err = "" /\ ~res.already
       IN  /\ ledger' = LoadAndSaveOperations(ledger, res)
           /\ resSum' = IF made THEN [resSum EXCEPT ![day] = @ + amount] ELSE resSum
           /\ resCnt' = IF made THEN [resCnt EXCEPT ![day] = @ + 1] ELSE resCnt
           /\ resLast' = [n |-> calls + 1, opType |-> opType, domain |-> d,
                          amount |-> amount, already |-> res.already,
                          err |-> res.err]
    /\ UNCHANGED <<tokens, nextTok, now, cfgAuto, cfgAck, proc,
                   okKeys, dupKeys, lateKeys, failedToks, markedToks,
                   cons, tokLock, usedOnce, usedTwice, refusedAfter, build,
                   setLast, tz, netVars, cliVars>>

NextReserve ==
    \/ \E ty \in {"purchase", "renew"}, d \in ReserveDomains, a \in ReservePrices :
          ReserveCall(ty, d, a)
    \/ \E d \in TickSteps : Tick(d)

SpecReserve == Init /\ [][NextReserve]_vars

\* the offsets of the local zone from UTC: west of it, UTC, east of it
Zones == {0 - ZoneShift, 0, ZoneShift}

\* the same calls made by processes whose local zone is any of Zones
InitZones == InitStores /\ build = "unix" /\ tz \in Zones

SpecZones == InitZones /\ [][NextReserve]_vars

(***************************************************************************)
(* Reservations and finalizations called directly and interleaved, one     *)
(* transaction each: the calls concurrent invocations make on one ledger.  *)
(***************************************************************************)
\* the operation_id of an operation whose reservation is no longer in the
\* ledger when it is finalized
LostKey == OperationKey("purchase", "lost.com", PriceLow, 0)

\* the operation_ids finalizeOperation is called with
FinalizeKeys == {ledger[i].id : i \in DOMAIN ledger} \cup {LostKey}

\* the amounts it is called with: the reserved amount, or the price the
\* provider reported
FinalizeAmounts(k) == {k[3], PriceMid}

\* one call of finalizeOperation at the current time
FinalizeCall(k, amount, status) ==
    /\ k \in FinalizeKeys
    /\ amount \in FinalizeAmounts(k)
    /\ LET res == finalizeOperation(ledger, k, amount, "USD", status, now)
       IN  /\ ledger' = LoadAndSaveOperations(ledger, [ops |-> res.ops, err |-> ""])
    /\ UNCHANGED <<tokens, nextTok, now, cfgAuto, cfgAck, proc, calls,
                   okKeys, dupKeys, lateKeys, failedToks, markedToks,
                   cons, tokLock, usedOnce, usedTwice, refusedAfter, build,
                   resSum, resCnt, resLast, setLast, tz, netVars, cliVars>>

LedgerPrices == {PriceSmall, PriceLow}

NextLedger ==
    \/ \E a \in LedgerPrices : ReserveCall("purchase", "a.com", a)
    \/ \E k \in FinalizeKeys, a \in ReservePrices, st \in {"succeeded", "failed"} :
          FinalizeCall(k, a, st)
    \/ \E d \in TickSteps : Tick(d)

SpecLedger == Init /\ [][NextLedger]_vars

(***************************************************************************)
(* The token store called directly by concurrent consumers.  A call of     *)
(* LoadAndSaveTokens opens the file, takes the lock and reads, then        *)
(* applies the mutator, writes and unlocks.                                *)
(***************************************************************************)
\* lockFile: flock(LOCK_EX) on unix, a no-op that returns nil on windows;
\* the result is whether the caller may go on, and the holder of the lock
lockFile(b, lock, p) ==
    IF b = "windows" THEN [ok |-> TRUE, lock |-> lock]
    ELSE [ok |-> lock = 0, lock |-> p]

unlockFile(b, lock, p) == IF b = "windows" THEN lock ELSE 0

\* IssueToken or ValidateAndUseToken is called: os.OpenFile
TokOpen(p, op, tokenID, d) ==
    /\ cons[p].pc \in {"idle", "done"}
    /\ calls < MaxCalls
    /\ calls' = calls + 1
    /\ cons' = [cons EXCEPT ![p] =
                  [IdleCons EXCEPT !.pc = "open", !.op = op, !.dom = d, !.t = now,
                                   !.tokId = IF op = "issue" THEN nextTok ELSE tokenID]]
    /\ nextTok' = IF op = "issue" THEN nextTok + 1 ELSE nextTok
    /\ UNCHANGED <<ledger, tokens, now, cfgAuto, cfgAck, proc,
                   okKeys, dupKeys, lateKeys, failedToks, markedToks,
                   tokLock, usedOnce, usedTwice, refusedAfter, build, resSum, resCnt,
                   resLast, setLast, tz, netVars, cliVars>>

\* lockFile, then io.ReadAll and json.Unmarshal
TokLockAndRead(p) ==
    /\ cons[p].pc = "open"
    /\ LET l == lockFile(build, tokLock, p)
       IN  /\ l.ok
           /\ tokLock' = l.lock
    /\ cons' = [cons EXCEPT ![p].pc = "locked", ![p].loaded = tokens]
    /\ UNCHANGED <<ledger, tokens, nextTok, now, cfgAuto, cfgAck, proc, calls,
                   okKeys, dupKeys, lateKeys, failedToks, markedToks,
                   usedOnce, usedTwice, refusedAfter, build, resSum, resCnt,
                   resLast, setLast, tz, netVars, cliVars>>

\* the mutator on what was read, the write when it returned nil, unlockFile
TokMutateAndWrite(p) ==
    /\ cons[p].pc = "locked"
    /\ LET c == cons[p]
           res == IF c.op = "issue"
                  THEN IssueToken(c.loaded, c.tokId, c.dom, PriceLow, "USD",
                                  OperationKey("purchase", c.dom, PriceLow, c.t), c.t)
                  ELSE ValidateAndUseToken(c.loaded, c.tokId, c.dom, c.t)
           consumed == c.op = "use" /\ res.err = ""
       IN  /\ tokens' = LoadAndSaveTokens(tokens, res)
           /\ cons' = [cons EXCEPT ![p].pc = "done", ![p].loaded = <<>>,
                                   ![p].ret = IF res.err = "" THEN "ok" ELSE res.err]
           /\ usedOnce' = IF consumed THEN usedOnce \cup {c.tokId} ELSE usedOnce
           /\ usedTwice' = IF consumed /\ c.tokId \in usedOnce
                           THEN usedTwice \cup {c.tokId} ELSE usedTwice
           /\ refusedAfter' = IF c.op = "use" /\ res.err # "" /\ c.tokId \in usedOnce
                              THEN refusedAfter \cup {c.tokId} ELSE refusedAfter
    /\ tokLock' = unlockFile(build, tokLock, p)
    /\ UNCHANGED <<ledger, nextTok, now, cfgAuto, cfgAck, proc, calls,
                   okKeys, dupKeys, lateKeys, failedToks, markedToks,
                   build, resSum, resCnt, resLast, setLast, tz, netVars, cliVars>>

\* the steps of the clock around a token: short of its lifetime (in one step
\* or in two), exactly its lifetime, past it
TokTickSteps == TickSteps \cup {TokenTTL, TokenTTL \div 2}

NextTokens ==
    \/ \E p \in Procs, d \in Domains : TokOpen(p, "issue", 0, d)
    \/ \E p \in Procs, d \in ConfirmDomains, t \in 1..(nextTok - 1) : TokOpen(p, "use", t, d)
    \/ \E p \in Procs : TokLockAndRead(p)
    \/ \E p \in Procs : TokMutateAndWrite(p)
    \/ \E d \in TokTickSteps : Tick(d)

InitTokens == InitStores /\ build \in Builds /\ tz = 0

SpecTokens == InitTokens /\ [][NextTokens]_vars

(***************************************************************************)
(* rate.Retry run step by step around the body the workflows pass to it:   *)
(* Limiter.Wait, then one provider call through HTTPClient.do.             *)
(***************************************************************************)
\* what httpClient.Do and the status of the response can give
HTTPOutcomes == {"2xx", "429", "401", "500", "transport"}

\* HTTPClient.do: the error for an outcome of the request; "deadline" is
\* httpClient.Do failing because the context of the request expired
do(outcome) ==
    CASE outcome = "2xx" -> NoErr
      [] outcome \in {"transport", "deadline"} ->
            [code |-> "provider", retryable |-> TRUE, cause |-> outcome]
      [] outcome = "429" -> [code |-> "rate_limited", retryable |-> TRUE, cause |-> ""]
      [] outcome = "401" -> [code |-> "auth", retryable |-> FALSE, cause |-> ""]
      [] OTHER -> [code |-> "provider", retryable |-> FALSE, cause |-> ""]

\* the closure passed to rate.Retry: waitErr is what Limiter.Wait returned,
\* callErr what the provider call returned; the answer is (retryable, err)
RetryBodyAnswer(waitErr, callErr) ==
    IF waitErr # NoErr THEN [retryable |-> FALSE, err |-> waitErr]
    ELSE IF callErr = NoErr THEN [retryable |-> FALSE, err |-> NoErr]
    ELSE [retryable |-> callErr.retryable \/ callErr.code = "rate_limited",
          err |-> callErr]

\* the error Retry makes up when the last attempt allowed failed retryably
ExhaustedErr(err) == [code |-> "rate_limited", retryable |-> TRUE, cause |-> err.code]

\* the body of the loop of Retry after fn answered on attempt i of n (from 0):
\* whether Retry returns, and what
RetryDecide_LastError(n, i, retryable, err) ==
    IF err = NoErr THEN [stop |-> TRUE, ret |-> NoErr]
    ELSE IF ~retryable THEN [stop |-> TRUE, ret |-> err]
    ELSE IF i = n - 1 THEN [stop |-> TRUE, ret |-> err]
    ELSE [stop |-> FALSE, ret |-> NoErr]

RetryDecide_OneMore(n, i, retryable, err) ==
    IF err = NoErr THEN [stop |-> TRUE, ret |-> NoErr]
    ELSE IF ~retryable THEN [stop |-> TRUE, ret |-> err]
    ELSE IF i = n THEN [stop |-> TRUE, ret |-> ExhaustedErr(err)]
    ELSE [stop |-> FALSE, ret |-> NoErr]

RetryDecide(n, i, retryable, err) ==
    IF err = NoErr THEN [stop |-> TRUE, ret |-> NoErr]
    ELSE IF ~retryable THEN [stop |-> TRUE, ret |-> err]
    ELSE IF i = n - 1 THEN [stop |-> TRUE, ret |-> ExhaustedErr(err)]
    ELSE [stop |-> FALSE, ret |-> NoErr]

\* the attempts a caller may pass: none, one, and up to what the workflows pass
RetryInputs == 0..RetryAttempts

\* Retry is called: attempts below one count as one
RetryBegin(attempts) ==
    /\ rt.pc \in {"idle", "done"}
    /\ calls < MaxCalls
    /\ calls' = calls + 1
    /\ rt' = [IdleRetry EXCEPT !.pc = "fn", !.attempts = attempts,
                               !.n = IF attempts < 1 THEN 1 ELSE attempts]
    /\ UNCHANGED <<ledger, tokens, nextTok, now, cfgAuto, cfgAck, proc,
                   okKeys, dupKeys, lateKeys, failedToks, markedToks,
                   cons, tokLock, usedOnce, usedTwice, refusedAfter, build,
                   resSum, resCnt, resLast, setLast, tz, lim, route, cliVars>>

\* one invocation of fn and the rest of the iteration up to the backoff.
\* The deadline may fire while fn is suspended: in Limiter.Wait on its timer
\* (at = "limiter"), which then returns ctx.Err(), or in the HTTP request
\* (at = "http"), which httpClient.Do then fails
RetryBody(outcome, at) ==
    /\ rt.pc = "fn"
    /\ at # "" => rt.fired = ""
    /\ LET waitErr == IF at = "limiter" THEN CtxErr ELSE NoErr
           callErr == do(IF at = "http" THEN "deadline" ELSE outcome)
           ans == RetryBodyAnswer(waitErr, callErr)
           hist == Append(rt.hist, ans)
           d == RetryDecide(rt.n, rt.i, ans.retryable, ans.err)
           r == [rt EXCEPT !.hist = hist,
                           !.fired = IF at # "" THEN at ELSE @,
                           !.firedMade = IF at # "" THEN Len(hist) ELSE @]
       IN  rt' = IF d.stop THEN [r EXCEPT !.pc = "done", !.ret = d.ret]
                 ELSE [r EXCEPT !.pc = "backoff"]
    /\ UNCHANGED <<ledger, tokens, nextTok, now, cfgAuto, cfgAck, proc, calls,
                   okKeys, dupKeys, lateKeys, failedToks, markedToks,
                   cons, tokLock, usedOnce, usedTwice, refusedAfter, build,
                   resSum, resCnt, resLast, setLast, tz, lim, route, cliVars>>

\* the deadline fires while Retry sleeps between two attempts
RetryDeadline ==
    /\ rt.pc = "backoff"
    /\ rt.fired = ""
    /\ rt' = [rt EXCEPT !.fired = "backoff", !.firedMade = Len(rt.hist)]
    /\ UNCHANGED <<ledger, tokens, nextTok, now, cfgAuto, cfgAck, proc, calls,
                   okKeys, dupKeys, lateKeys, failedToks, markedToks,
                   cons, tokLock, usedOnce, usedTwice, refusedAfter, build,
                   resSum, resCnt, resLast, setLast, tz, lim, route, cliVars>>

\* the select of the backoff: ctx.Done() when the deadline has fired, the
\* timer otherwise, and then the next iteration
RetryBackoff ==
    /\ rt.pc = "backoff"
    /\ rt' = IF rt.fired # "" THEN [rt EXCEPT !.pc = "done", !.ret = CtxErr]
             ELSE IF rt.i + 1 < rt.n THEN [rt EXCEPT !.pc = "fn", !.i = @ + 1]
             ELSE [rt EXCEPT !.pc = "done", !.i = @ + 1, !.ret = NoErr]
    /\ UNCHANGED <<ledger, tokens, nextTok, now, cfgAuto, cfgAck, proc, calls,
                   okKeys, dupKeys, lateKeys, failedToks, markedToks,
                   cons, tokLock, usedOnce, usedTwice, refusedAfter, build,
                   resSum, resCnt, resLast, setLast, tz, lim, route, cliVars>>

NextRetry ==
    \/ \E a \in RetryInputs : RetryBegin(a)
    \/ \E o \in HTTPOutcomes, at \in {"", "limiter", "http"} : RetryBody(o, at)
    \/ RetryDeadline
    \/ RetryBackoff

SpecRetry == Init /\ [][NextRetry]_vars

(***************************************************************************)
(* Limiter.Wait called by concurrent goroutines.  sync.Mutex queues the    *)
(* goroutines that block in Lock in FIFO order, but Unlock only wakes the  *)
(* first of them: it takes the mutex when it runs, unless a goroutine that *)
(* calls Lock meanwhile found the mutex free and took it.                  *)
(***************************************************************************)
\* the deadlines of the callers: one that fires while they wait, one that
\* does not fire
LimDeadlines == {LimDeadline, MaxLimTime + 1}

LimUnchanged ==
    UNCHANGED <<ledger, tokens, nextTok, now, cfgAuto, cfgAck, proc, calls,
                okKeys, dupKeys, lateKeys, failedToks, markedToks,
                cons, tokLock, usedOnce, usedTwice, refusedAfter, build,
                resSum, resCnt, resLast, setLast, tz, rt, route, cliVars>>

\* a goroutine calls Wait and reaches l.mu.Lock(): it takes the mutex when it
\* is free, and blocks at the end of the queue otherwise
LimArrive(c, dl) ==
    /\ lim.g[c].pc = "idle"
    /\ lim' = [lim EXCEPT
                 !.arrived = @ + 1,
                 !.mu = IF lim.mu = 0 THEN c ELSE @,
                 !.queue = IF lim.mu = 0 THEN @ ELSE Append(@, c),
                 !.g[c] = [IdleCaller EXCEPT
                             !.pc = IF lim.mu = 0 THEN "locked" ELSE "queued",
                             !.arr = lim.arrived + 1, !.deadline = dl]]
    /\ LimUnchanged

\* the goroutine Unlock woke, the first of the queue, runs and takes the mutex
LimWake(c) ==
    /\ lim.g[c].pc = "queued"
    /\ lim.mu = 0
    /\ lim.queue # <<>> /\ Head(lim.queue) = c
    /\ lim' = [lim EXCEPT !.mu = c, !.queue = Tail(@), !.g[c].pc = "locked"]
    /\ LimUnchanged

\* next for a limiter whose last slot is last, at time t
NextSlot(last, t) == IF last + LimInterval < t THEN t ELSE last + LimInterval

\* the critical section: next is computed and stored, the mutex released
LimAssign(c) ==
    /\ lim.g[c].pc = "locked"
    /\ LET next == NextSlot(lim.last, lim.t)
       IN  lim' = [lim EXCEPT !.last = next, !.mu = 0,
                              !.g[c].pc = "slotted", !.g[c].slot = next]
    /\ LimUnchanged

\* time.Until(next): nil at once when the slot is not in the future
LimUntil(c) ==
    /\ lim.g[c].pc = "slotted"
    /\ lim' = IF lim.g[c].slot - lim.t <= 0
              THEN [lim EXCEPT !.g[c].pc = "done", !.g[c].at = lim.t]
              ELSE [lim EXCEPT !.g[c].pc = "sleeping"]
    /\ LimUnchanged

\* the select: the timer at the slot, ctx.Done() at the deadline
LimSelect(c, which) ==
    /\ lim.g[c].pc = "sleeping"
    /\ \/ /\ which = "timer"
          /\ lim.t >= lim.g[c].slot
          /\ lim' = [lim EXCEPT !.g[c].pc = "done", !.g[c].at = lim.t]
       \/ /\ which = "ctx"
          /\ lim.t >= lim.g[c].deadline
          /\ lim' = [lim EXCEPT !.g[c].pc = "done", !.g[c].at = lim.t,
                                !.g[c].ret = CtxErr]
    /\ LimUnchanged

\* the clock of the process advances; a goroutine whose timer or deadline is
\* due runs before it advances further
LimTick ==
    /\ lim.t < MaxLimTime
    /\ \A c \in Callers :
          lim.g[c].pc = "sleeping" =>
             lim.t < lim.g[c].slot /\ lim.t < lim.g[c].deadline
    /\ lim' = [lim EXCEPT !.t = @ + 1]
    /\ LimUnchanged

NextLimiter ==
    \/ \E c \in Callers, dl \in LimDeadlines : LimArrive(c, dl)
    \/ \E c \in Callers : LimWake(c)
    \/ \E c \in Callers : LimAssign(c)
    \/ \E c \in Callers : LimUntil(c)
    \/ \E c \in Callers, w \in {"timer", "ctx"} : LimSelect(c, w)
    \/ LimTick

SpecLimiter == Init /\ [][NextLimiter]_vars

(***************************************************************************)
(* The v2-then-v1 router and the workflows that call it once: DomainDetail *)
(* and SetNameserversSmart.                                                *)
(***************************************************************************)
\* the customer ids a configuration may hold: none, blank, one
CustomerIDs == {"", " ", "cust-123"}

\* strings.TrimSpace on them
TrimSpace(v) == IF v = " " THEN "" ELSE v

canUseV2(customerID) == TrimSpace(customerID) # ""

\* what a provider call returns: a body and no error, or no body and the
\* error HTTPClient.do makes of the outcome
Answer(body, outcome) ==
    [out |-> IF outcome = "2xx" THEN body ELSE "", err |-> do(outcome)]

\* doV2ThenV1 when runV2 and runV1 would answer v2 and v1: the value, whether
\* it is the v2 one, the error, and the calls it ran, in order
doV2ThenV1_SurfacesV2(useV2, v2, v1) ==
    IF ~useV2
    THEN [out |-> v1.out, usedV2 |-> FALSE, err |-> v1.err, ran |-> <<"v1">>]
    ELSE IF v2.err = NoErr
    THEN [out |-> v2.out, usedV2 |-> TRUE, err |-> NoErr, ran |-> <<"v2">>]
    ELSE IF v1.err = NoErr
    THEN [out |-> v1.out, usedV2 |-> FALSE, err |-> NoErr, ran |-> <<"v2", "v1">>]
    ELSE [out |-> "", usedV2 |-> FALSE, err |-> v2.err, ran |-> <<"v2", "v1">>]

doV2ThenV1_AlwaysV1(useV2, v2, v1) ==
    IF ~useV2
    THEN [out |-> v1.out, usedV2 |-> FALSE, err |-> v1.err, ran |-> <<"v1">>]
    ELSE IF v2.err = NoErr
    THEN [out |-> v2.out, usedV2 |-> TRUE, err |-> NoErr, ran |-> <<"v2", "v1">>]
    ELSE IF v1.err = NoErr
    THEN [out |-> v1.out, usedV2 |-> FALSE, err |-> NoErr, ran |-> <<"v2", "v1">>]
    ELSE [out |-> "", usedV2 |-> FALSE, err |-> v1.err, ran |-> <<"v2", "v1">>]

doV2ThenV1(useV2, v2, v1) ==
    IF ~useV2
    THEN [out |-> v1.out, usedV2 |-> FALSE, err |-> v1.err, ran |-> <<"v1">>]
    ELSE IF v2.err = NoErr
    THEN [out |-> v2.out, usedV2 |-> TRUE, err |-> NoErr, ran |-> <<"v2">>]
    ELSE IF v1.err = NoErr
    THEN [out |-> v1.out, usedV2 |-> FALSE, err |-> NoErr, ran |-> <<"v2", "v1">>]
    ELSE [out |-> "", usedV2 |-> FALSE, err |-> v1.err, ran |-> <<"v2", "v1">>]

\* DomainDetail with a client that has the v2 methods: the body, the
\* _api_version it is annotated with, the error
DomainDetail(customerID, v2, v1) ==
    LET r == doV2ThenV1(canUseV2(customerID), v2, v1)
    IN  IF r.err # NoErr THEN [out |-> "", ver |-> "", err |-> r.err, ran |-> r.ran]
        ELSE [out |-> r.out, ver |-> IF r.usedV2 THEN "v2" ELSE "v1",
              err |-> NoErr, ran |-> r.ran]

\* SetNameserversSmart: the API version it returns, the error
SetNameserversSmart(customerID, v2, v1) ==
    IF canUseV2(customerID)
    THEN LET r == doV2ThenV1(TRUE, v2, v1)
         IN  IF r.err # NoErr THEN [out |-> "", ver |-> "", err |-> r.err, ran |-> r.ran]
             ELSE [out |-> "", ver |-> IF r.usedV2 THEN "v2" ELSE "v1",
                   err |-> NoErr, ran |-> r.ran]
    ELSE [out |-> "", ver |-> IF v1.err = NoErr THEN "v1" ELSE "", err |-> v1.err,
          ran |-> <<"v1">>]

RoutedWorkflows == {"detail", "nameservers"}

\* one call of a routed workflow; o2 and o1 are the outcomes the v2 and the
\* v1 request have when they are made
RouteCall(wf, customerID, o2, o1) ==
    /\ calls < MaxCalls
    /\ calls' = calls + 1
    /\ LET v2 == Answer("v2-body", o2)
           v1 == Answer("v1-body", o1)
           r == IF wf = "detail" THEN DomainDetail(customerID, v2, v1)
                ELSE SetNameserversSmart(customerID, v2, v1)
           ranV2 == \E k \in DOMAIN r.ran : r.ran[k] = "v2"
           ranV1 == \E k \in DOMAIN r.ran : r.ran[k] = "v1"
       IN  route' = [wf |-> wf, customerID |-> customerID, seen |-> r.ran,
                     v2 |-> IF ranV2 THEN v2.err ELSE NoErr,
                     v1 |-> IF ranV1 THEN v1.err ELSE NoErr,
                     out |-> r.out, ver |-> r.ver, err |-> r.err]
    /\ UNCHANGED <<ledger, tokens, nextTok, now, cfgAuto, cfgAck, proc,
                   okKeys, dupKeys, lateKeys, failedToks, markedToks,
                   cons, tokLock, usedOnce, usedTwice, refusedAfter, build,
                   resSum, resCnt, resLast, setLast, tz, rt, lim, cliVars>>

NextRoute ==
    \E wf \in RoutedWorkflows, c \in CustomerIDs, o2, o1 \in HTTPOutcomes :
        RouteCall(wf, c, o2, o1)

SpecRoute == Init /\ [][NextRoute]_vars

(***************************************************************************)
(* One attempt of Renew at the provider: the v2 leg builds its request     *)
(* from the domain detail of each customer candidate, the v1 leg renews.   *)
(***************************************************************************)
\* everything but the invocation counter and the variables of the sections
\* that follow
BaseUnchanged ==
    UNCHANGED <<ledger, tokens, nextTok, now, cfgAuto, cfgAck, proc,
                okKeys, dupKeys, lateKeys, failedToks, markedToks,
                cons, tokLock, usedOnce, usedTwice, refusedAfter, build,
                resSum, resCnt, resLast, setLast, tz, netVars>>

ShopperIDs == {"", "660323812", "cust-123"}

\* renewV2CustomerCandidates: the trimmed, non-empty, distinct ids, the
\* customer id first
renewV2CustomerCandidates(customerID, shopperID) ==
    LET c == TrimSpace(customerID)
        sh == TrimSpace(shopperID)
        first == IF c = "" THEN <<>> ELSE <<c>>
    IN  IF sh = "" \/ (c # "" /\ sh = c) THEN first ELSE Append(first, sh)

\* the values renewal.price takes in a detail response: absent, a whole or a
\* fractional number, a string that is or is not an integer; in micro-units
RenewalPrices ==
    {[type |-> "nil", whole |-> FALSE, n |-> 0],
     [type |-> "float64", whole |-> TRUE, n |-> 10990000],
     [type |-> "float64", whole |-> FALSE, n |-> 10],
     [type |-> "float64", whole |-> TRUE, n |-> 0],
     [type |-> "string", whole |-> TRUE, n |-> 10990000],
     [type |-> "string", whole |-> FALSE, n |-> 0]}

\* renewPriceMicros: the integer, and whether it failed
renewPriceMicros(v) ==
    IF v.type \in {"float64", "string"} /\ v.whole
    THEN [micros |-> v.n, failed |-> FALSE]
    ELSE [micros |-> 0, failed |-> TRUE]

NoPrice == [type |-> "nil", whole |-> FALSE, n |-> 0]

\* what DomainDetailV2 can answer: an error, or a body with or without
\* expiresAt, with or without the renewal block
Details ==
    {[err |-> do("500"), expiresAt |-> "", renewal |-> FALSE, price |-> NoPrice]}
    \cup {[err |-> NoErr, expiresAt |-> e, renewal |-> FALSE, price |-> NoPrice] :
             e \in {"", "2026-05-27T15:01:38.000Z"}}
    \cup {[err |-> NoErr, expiresAt |-> " ", renewal |-> TRUE,
           price |-> CHOOSE v \in RenewalPrices : v.type = "string" /\ v.whole]}
    \cup {[err |-> NoErr, expiresAt |-> "2026-05-27T15:01:38.000Z", renewal |-> TRUE,
           price |-> v] : v \in RenewalPrices}

\* the detail has an expiration and a renewal price that parses to a
\* positive number of micro-units
Parseable(detail) ==
    /\ detail.err = NoErr
    /\ TrimSpace(detail.expiresAt) # ""
    /\ detail.renewal
    /\ ~renewPriceMicros(detail.price).failed
    /\ renewPriceMicros(detail.price).micros > 0

BuildFailed == [code |-> "provider", retryable |-> FALSE, cause |-> "detail"]

\* buildRenewV2Request on the detail answered: the error, NoErr when the
\* request was built
buildRenewV2Request_TrustsDetail(detail) ==
    IF detail.err # NoErr THEN detail.err ELSE NoErr

buildRenewV2Request(detail) ==
    IF detail.err # NoErr THEN detail.err
    ELSE IF TrimSpace(detail.expiresAt) = "" THEN BuildFailed
    ELSE IF ~detail.renewal THEN BuildFailed
    ELSE LET pm == renewPriceMicros(detail.price)
         IN  IF pm.failed \/ pm.micros <= 0 THEN BuildFailed ELSE NoErr

\* runV2 of Renew from candidate k on: the calls made and the error, NoErr
\* when a RenewV2 succeeded; det[k] and o2[k] are what the detail call and
\* the renew call of candidate k answer
RECURSIVE runV2From(_, _, _, _, _)
runV2From(cands, det, o2, k, lastErr) ==
    IF k > Len(cands)
    THEN [ran |-> <<>>,
          err |-> IF lastErr # NoErr THEN lastErr
                  ELSE [code |-> "validation", retryable |-> FALSE, cause |-> ""]]
    ELSE LET reqErr == buildRenewV2Request(det[k])
             asked == <<[op |-> "detail", cand |-> k]>>
         IN  IF reqErr # NoErr
             THEN LET rest == runV2From(cands, det, o2, k + 1, reqErr)
                  IN  [ran |-> asked \o rest.ran, err |-> rest.err]
             ELSE LET sent == Append(asked, [op |-> "renewV2", cand |-> k])
                      renewErr == do(o2[k])
                  IN  IF renewErr = NoErr THEN [ran |-> sent, err |-> NoErr]
                      ELSE LET rest == runV2From(cands, det, o2, k + 1, renewErr)
                           IN  [ran |-> sent \o rest.ran, err |-> rest.err]

\* the provider part of the closure Renew passes to Retry, for a client that
\* has the v2 methods: the calls made, the API version used, the error
RenewAtProvider(customerID, shopperID, det, o2, o1) ==
    LET cands == renewV2CustomerCandidates(customerID, shopperID)
        useV2 == canUseV2(customerID) \/ TrimSpace(shopperID) # ""
        v1call == <<[op |-> IF TrimSpace(shopperID) # "" THEN "renewAsShopper"
                            ELSE "renewV1", cand |-> 0]>>
        v1 == Answer("v1-renew", o1)
    IN  IF useV2
        THEN LET r2 == runV2From(cands, det, o2, 1, NoErr)
                 r == doV2ThenV1(TRUE, [out |-> "v2-renew", err |-> r2.err], v1)
                 ranV1 == \E i \in DOMAIN r.ran : r.ran[i] = "v1"
             IN  [cands |-> cands,
                  seen |-> r2.ran \o (IF ranV1 THEN v1call ELSE <<>>),
                  usedV2 |-> r.usedV2, err |-> r.err,
                  v1 |-> IF ranV1 THEN v1.err ELSE NoErr]
        ELSE [cands |-> cands, seen |-> v1call, usedV2 |-> FALSE, err |-> v1.err,
              v1 |-> v1.err]

\* one attempt; when it succeeds Renew annotates its result with the version
RenewAttempt(customerID, shopperID, det, o2, o1) ==
    /\ rnw.pc = "idle"
    /\ LET r == RenewAtProvider(customerID, shopperID, det, o2, o1)
       IN  rnw' = [pc |-> "done", cands |-> r.cands,
                   det |-> SubSeq(det, 1, Len(r.cands)), seen |-> r.seen,
                   v1 |-> r.v1,
                   ver |-> IF r.err # NoErr THEN ""
                           ELSE IF r.usedV2 THEN "v2" ELSE "v1",
                   err |-> r.err]
    /\ UNCHANGED <<calls, pool, cli>>
    /\ BaseUnchanged

NextRenewRoute ==
    \E c \in CustomerIDs, sh \in ShopperIDs :
       \E det \in [1..2 -> Details], o2 \in [1..2 -> HTTPOutcomes], o1 \in HTTPOutcomes :
           RenewAttempt(c, sh, det, o2, o1)

SpecRenewRoute == Init /\ [][NextRenewRoute]_vars

(***************************************************************************)
(* The bulk worker pool of AvailabilityBulkConcurrent and of               *)
(* PortfolioWithNameservers: an unbuffered channel of jobs, a channel of   *)
(* results with room for one result per input, a WaitGroup.                *)
(***************************************************************************)
BulkWorkflows == {"avail-bulk", "portfolio"}

BulkDomains == {"one.com", "two.com"}

\* the input lists: every list of at most MaxInputs domains, repeats included
RECURSIVE ListsOf(_)
ListsOf(n) ==
    IF n = 0 THEN {<<>>}
    ELSE ListsOf(n - 1) \cup
         {Append(l, d) : l \in {x \in ListsOf(n - 1) : Len(x) = n - 1}, d \in BulkDomains}

BulkInputs == ListsOf(MaxInputs)

\* the concurrency a caller may ask for: none, and up to MaxWorkers
Concurrencies == 0..MaxWorkers

\* the workers started: at least one, and at most PoolCap for the portfolio
WorkersFor_AsAsked(wf, concurrency) == concurrency

WorkersFor(wf, concurrency) ==
    IF concurrency < 1 THEN 1
    ELSE IF wf = "portfolio" /\ concurrency > PoolCap THEN PoolCap
    ELSE concurrency

\* the call starts: the channels are made and the workers started; the list
\* of the portfolio is fetched first and its failure ends the call
PoolStart(wf, inputs, concurrency, listed) ==
    /\ pool.pc = "idle"
    /\ pool' = IF wf = "portfolio" /\ ~listed
               THEN [IdlePool EXCEPT !.pc = "done", !.wf = wf, !.conc = concurrency,
                                     !.jobsClosed = TRUE, !.resultsClosed = TRUE,
                                     !.err = [code |-> "provider", failed |-> 0,
                                              total |-> 0]]
               ELSE [IdlePool EXCEPT
                       !.pc = "feed", !.wf = wf, !.inputs = inputs,
                       !.conc = concurrency,
                       !.w = [k \in 1..WorkersFor(wf, concurrency) |->
                                [pc |-> "recv", idx |-> 0]],
                       !.out = [i \in 1..Len(inputs) |-> ZeroItem],
                       !.looked = [i \in 1..Len(inputs) |-> [n |-> 0, ok |-> FALSE]]]
    /\ UNCHANGED <<calls, rnw, cli>>
    /\ BaseUnchanged

\* jobs <- job{idx, domain}: the caller hands the next job to a worker that
\* is receiving
PoolSend(k) ==
    /\ pool.pc = "feed"
    /\ pool.next < Len(pool.inputs)
    /\ k \in DOMAIN pool.w
    /\ pool.w[k].pc = "recv"
    /\ pool' = [pool EXCEPT !.w[k] = [pc |-> "work", idx |-> pool.next],
                            !.next = @ + 1]
    /\ UNCHANGED <<calls, rnw, cli>>
    /\ BaseUnchanged

\* close(jobs) after the last job, then wg.Wait()
PoolCloseJobs ==
    /\ pool.pc = "feed"
    /\ pool.next = Len(pool.inputs)
    /\ pool' = [pool EXCEPT !.pc = "wait", !.jobsClosed = TRUE]
    /\ UNCHANGED <<calls, rnw, cli>>
    /\ BaseUnchanged

\* the context of the call is cancelled: the lookups made from then on fail
PoolCancel ==
    /\ pool.pc \in {"feed", "wait"}
    /\ ~pool.cancelled
    /\ pool' = [pool EXCEPT !.cancelled = TRUE]
    /\ UNCHANGED <<calls, rnw, cli>>
    /\ BaseUnchanged

\* a worker looks its job up and sends the item, with the error if any, on
\* results; the send waits while the channel is full
PoolWork(k, ok) ==
    /\ k \in DOMAIN pool.w
    /\ pool.w[k].pc = "work"
    /\ pool.cancelled => ~ok
    /\ Len(pool.results) < Len(pool.inputs)
    /\ LET idx == pool.w[k].idx
           item == [index |-> idx, input |-> pool.inputs[idx + 1], success |-> ok]
       IN  pool' = [pool EXCEPT !.results = Append(@, item),
                                !.w[k] = [pc |-> "recv", idx |-> 0],
                                !.looked[idx + 1] = [n |-> @.n + 1, ok |-> ok],
                                !.arrival = Append(@, idx)]
    /\ UNCHANGED <<calls, rnw, cli>>
    /\ BaseUnchanged

\* range jobs ends for a worker when jobs is closed: wg.Done()
PoolExit(k) ==
    /\ k \in DOMAIN pool.w
    /\ pool.w[k].pc = "recv"
    /\ pool.jobsClosed
    /\ pool' = [pool EXCEPT !.w[k].pc = "exited"]
    /\ UNCHANGED <<calls, rnw, cli>>
    /\ BaseUnchanged

\* wg.Wait() returns when every worker is done; close(results)
PoolCloseResults ==
    /\ pool.pc = "wait"
    /\ \A k \in DOMAIN pool.w : pool.w[k].pc = "exited"
    /\ pool' = [pool EXCEPT !.pc = "collect", !.resultsClosed = TRUE]
    /\ UNCHANGED <<calls, rnw, cli>>
    /\ BaseUnchanged

\* out[r.item.Index] = r.item
Place_InArrivalOrder(out, item) ==
    LET free == {i \in DOMAIN out : out[i] = ZeroItem}
    IN  IF free = {} THEN out ELSE [out EXCEPT ![Min(free)] = item]

Place(out, item) == [out EXCEPT ![item.index + 1] = item]

\* one iteration of range results
PoolCollect ==
    /\ pool.pc = "collect"
    /\ pool.results # <<>>
    /\ LET r == Head(pool.results)
       IN  pool' = [pool EXCEPT !.results = Tail(@),
                                !.out = Place(@, r),
                                !.failures = IF r.success THEN @ ELSE @ + 1]
    /\ UNCHANGED <<calls, rnw, cli>>
    /\ BaseUnchanged

\* the error of a bulk call that counted failures failed items of total
PartialError_Never(failures, total) == NoPartial

PartialError(failures, total) ==
    IF failures > 0 THEN [code |-> "partial", failed |-> failures, total |-> total]
    ELSE NoPartial

\* the call returns out and the error; the command emits one record per
\* item of out, in the order of out
PoolReturn ==
    /\ pool.pc = "collect"
    /\ pool.results = <<>>
    /\ pool' = [pool EXCEPT !.pc = "done",
                            !.err = PartialError(pool.failures, Len(pool.inputs)),
                            !.recs = [i \in DOMAIN pool.out |-> pool.out[i]]]
    /\ UNCHANGED <<calls, rnw, cli>>
    /\ BaseUnchanged

NextPool ==
    \/ \E wf \in BulkWorkflows, l \in BulkInputs, c \in Concurrencies, b \in BOOLEAN :
          PoolStart(wf, l, c, b)
    \/ \E k \in 1..MaxWorkers : PoolSend(k)
    \/ PoolCloseJobs
    \/ PoolCancel
    \/ \E k \in 1..MaxWorkers, ok \in BOOLEAN : PoolWork(k, ok)
    \/ \E k \in 1..MaxWorkers : PoolExit(k)
    \/ PoolCloseResults
    \/ PoolCollect
    \/ PoolReturn

SpecPool == Init /\ [][NextPool]_vars

\* the goroutines of the pool are scheduled: a step that stays possible is
\* taken
SpecPoolLive == SpecPool /\ WF_vars(NextPool)

(***************************************************************************)
(* The command line: Execute, run, the emitters and the startup update     *)
(* notifier.  cli.out is the result channel (os.Stdout), cli.errOut the    *)
(* log channel (os.Stderr); the notifier is a goroutine of its own, and    *)
(* the process ends, goroutine included, when Execute exits.               *)
(***************************************************************************)
\* the result values the commands hand to emitSuccess: a map or struct, or a
\* slice of n records; NoValue is the nil interface
NoValue == [kind |-> "nil", n |-> 0]

Object == [kind |-> "object", n |-> 0]

Records(n) == [kind |-> "list", n |-> n]

\* output.LogErr: one line on the writer it is given
LogErr(errOut, text) == Append(errOut, [kind |-> "log", text |-> text])

\* Writer.EmitJSON: one envelope on w.Out.  Result and Error are omitempty:
\* the nil interface and the nil *AppError leave no field
EmitJSON(out, command, result, err) ==
    Append(out, [kind |-> "envelope", command |-> command,
                 result |-> result.kind # "nil",
                 error |-> err # NilErr,
                 code |-> IF err = NilErr THEN "" ELSE err[1].code])

\* Writer.EmitNDJSON: one envelope per record, none of them with an error
RECURSIVE EmitNDJSON(_, _, _)
EmitNDJSON(out, command, n) ==
    IF n = 0 THEN out
    ELSE EmitNDJSON(EmitJSON(out, command, Object, NilErr), command, n - 1)

\* emitSuccess: the records of a slice (or the result as the one record) under
\* --ndjson, one envelope otherwise; the encoder's error is returned when the
\* result channel cannot be written
emitSuccess(c, command, result) ==
    IF ~c.svc.outOK THEN [c EXCEPT !.ret = PlainErr]
    ELSE IF c.args.ndjson
    THEN [c EXCEPT !.out = EmitNDJSON(c.out, command,
                                      IF result.kind = "list" THEN result.n ELSE 1),
                   !.ret = NilErr]
    ELSE [c EXCEPT !.out = EmitJSON(c.out, command, result, NilErr),
                   !.ret = NilErr]

\* the envelope is written with a result next to the error
emitError_WithResult(c, command, err) ==
    LET ae == IF As(err).ok THEN AppErr(As(err).code) ELSE AppErr("internal")
        o == IF c.svc.outOK THEN EmitJSON(c.out, command, Object, ae) ELSE c.out
    IN  [c EXCEPT !.out = o,
                  !.errOut = IF c.args.quiet THEN @ ELSE LogErr(@, "error")]

\* emitError: the *AppError of the chain, or an internal_error made of the
\* message, in an envelope without result; then the error line on the log
\* channel unless --quiet.  The encoder's error is dropped.
emitError(c, command, err) ==
    LET ae == IF As(err).ok THEN AppErr(As(err).code) ELSE AppErr("internal")
        o == IF c.svc.outOK THEN EmitJSON(c.out, command, NoValue, ae) ELSE c.out
    IN  [c EXCEPT !.out = o,
                  !.errOut = IF c.args.quiet THEN @ ELSE LogErr(@, "error")]

\* the command's error envelope followed by "return err"
Failing(c, command, err) == [emitError(c, command, err) EXCEPT !.ret = err]

usageError == AppErr("validation")

\* app.MaybeWarnProdFinancial
MaybeWarnProdFinancial(c) ==
    IF c.args.quiet \/ ~c.args.prod THEN c
    ELSE [c EXCEPT !.errOut = LogErr(@, "warning")]

\* the notice goes to the result channel
emitUpdateNotice_ToOut(c, releaseURL) ==
    LET first == LogErr(c.out, "update available")
    IN  [c EXCEPT !.out = IF releaseURL # "" THEN LogErr(first, "release") ELSE first]

\* emitUpdateNotice: one or two lines on rt.ErrOut
emitUpdateNotice(c, releaseURL) ==
    LET first == LogErr(c.errOut, "update available")
    IN  [c EXCEPT !.errOut = IF releaseURL # "" THEN LogErr(first, "release") ELSE first]

\* what update-check.json can hold for the running version: nothing usable
\* (missing, unreadable, another version), a check older than the interval,
\* or a recent check with or without an update and a release URL
Caches == {"none", "stale", "fresh-current", "fresh-update", "fresh-update-url"}

Fresh(cache) == cache \in {"fresh-current", "fresh-update", "fresh-update-url"}

CachedNotice(c, cache) ==
    IF cache = "fresh-update" THEN emitUpdateNotice(c, "")
    ELSE IF cache = "fresh-update-url" THEN emitUpdateNotice(c, "url")
    ELSE c

\* shouldRunStartupUpdateCheck
shouldRunStartupUpdateCheck(c) ==
    /\ ~c.args.quiet
    /\ c.args.cmd \notin {"version", "self-update"}
    /\ ~c.args.envOff

\* maybeStartUpdateNotifier: nothing, the cached notice, or the goroutine
maybeStartUpdateNotifier(c) ==
    IF ~shouldRunStartupUpdateCheck(c) THEN c
    ELSE IF Fresh(c.args.cache) THEN CachedNotice(c, c.args.cache)
    ELSE [c EXCEPT !.upd = "spawned"]

\* the commands of the model; "" is an empty command line and "bogus" an
\* unknown command
Commands == {"", "bogus", "version", "purchase", "renew", "avail-bulk", "portfolio"}

CliArgs == [cmd : Commands, quiet : BOOLEAN, ndjson : BOOLEAN, cfgOK : BOOLEAN,
            prod : BOOLEAN, cache : Caches, envOff : BOOLEAN]


\* What the service call of a command does, as the command sees it: pre is
\* the error raised before anything is reserved ("auth" is newService failing
\* on the credentials), reserve the answer of reserveOperation ("io" is the
\* ledger file failing), provider the answer of the retried provider call,
\* finalize the answer of the post-call price check and finalizeOperation;
\* failed of total items for the bulk commands, listed whether ListPortfolio
\* answered; outOK whether the result channel can be written
PreErrors == {"", "auth", "validation", "confirmation", "budget", "safety"}

MoneyOutcomes ==
    {o \in [pre : PreErrors, reserve : {"ok", "io", "budget", "already"},
            provider : {"ok", "provider", "rate_limited", "auth"},
            finalize : {"ok", "io", "budget"}, dryRun : BOOLEAN,
            failed : {0}, total : {0}, listed : {TRUE}, outOK : BOOLEAN] :
        /\ o.pre # "" \/ o.dryRun => o.reserve = "ok"
        /\ o.reserve # "ok" \/ o.pre # "" \/ o.dryRun => o.provider = "ok"
        /\ o.provider # "ok" \/ o.reserve # "ok" \/ o.pre # "" \/ o.dryRun
              => o.finalize = "ok"}

BulkOutcomes ==
    {o \in [pre : {"", "auth"}, reserve : {"ok"}, provider : {"ok"},
            finalize : {"ok"}, dryRun : {FALSE}, failed : 0..MaxInputs,
            total : 0..MaxInputs, listed : BOOLEAN, outOK : BOOLEAN] :
        /\ o.failed <= o.total
        /\ o.pre # "" \/ ~o.listed => o.total = 0}

PlainOutcomes == {[NoOutcome EXCEPT !.outOK = b] : b \in BOOLEAN}

OutcomesOf(cmd) ==
    IF cmd \in {"purchase", "renew"} THEN MoneyOutcomes
    ELSE IF cmd \in {"avail-bulk", "portfolio"} THEN BulkOutcomes
    ELSE PlainOutcomes

\* whether the provider sold or renewed the domain in this call
Bought(o) ==
    o.pre = "" /\ ~o.dryRun /\ o.reserve = "ok" /\ o.provider = "ok"

\* the error PurchaseConfirm, PurchaseAuto and Renew return: the error of the
\* checks, of reserveOperation, of the provider call, then of the post-call
\* check and of finalizeOperation(..., "succeeded")
ServiceErr(o) ==
    IF o.pre # "" THEN AppErr(o.pre)
    ELSE IF o.dryRun THEN NilErr
    ELSE IF o.reserve = "io" THEN PlainErr
    ELSE IF o.reserve = "budget" THEN AppErr("budget")
    ELSE IF o.reserve = "already" THEN NilErr
    ELSE IF o.provider # "ok" THEN AppErr(o.provider)
    ELSE IF o.finalize = "io" THEN PlainErr
    ELSE IF o.finalize = "budget" THEN AppErr("budget")
    ELSE NilErr

\* the error of a bulk service call
BulkErr(o) ==
    IF ~o.listed THEN AppErr("provider")
    ELSE IF PartialError(o.failed, o.total) = NoPartial THEN NilErr
    ELSE AppErr(PartialError(o.failed, o.total).code)

\* runDomains for purchase and renew: the production warning, the service
\* call, then the error envelope or the success envelope
runMoney(c, o) ==
    LET w == MaybeWarnProdFinancial(c)
        e == ServiceErr(o)
    IN  IF e # NilErr THEN Failing(w, c.args.cmd, e)
        ELSE emitSuccess(w, c.args.cmd, Object)

\* runDomains for avail-bulk and portfolio: the records are emitted whatever
\* the service returned, then its error is returned
runBulk(c, o) ==
    LET e == BulkErr(o)
        sent == emitSuccess(c, c.args.cmd,
                            IF c.args.ndjson THEN Records(o.total) ELSE Object)
    IN  IF sent.ret # NilErr THEN sent ELSE [sent EXCEPT !.ret = e]

\* the dispatch of run and runDomains
Dispatch(c, o) ==
    LET cmd == c.args.cmd
    IN  IF cmd = "bogus" THEN Failing(c, "gdcli", usageError)
        ELSE IF cmd = "version" THEN emitSuccess(c, "version", Object)
        ELSE IF o.pre = "auth" THEN Failing(c, "domains", AppErr("auth"))
        ELSE IF cmd \in {"purchase", "renew"} THEN runMoney(c, o)
        ELSE runBulk(c, o)

CliUnchanged == UNCHANGED <<calls, rnw, pool>> /\ BaseUnchanged

\* run up to the dispatch: no command is a usage error without envelope, a
\* configuration that cannot be loaded fails NewRuntime without envelope,
\* otherwise the runtime exists and the notifier is started
CliStart(a) ==
    /\ cli.pc = "idle"
    /\ LET c == [cli EXCEPT !.args = a]
       IN  cli' = IF a.cmd = "" THEN [c EXCEPT !.pc = "ret", !.ret = usageError]
                  ELSE IF ~a.cfgOK
                  THEN [c EXCEPT !.pc = "ret",
                                 !.ret = Wrapping(AppErr("internal"), PlainErr)]
                  ELSE [maybeStartUpdateNotifier(c) EXCEPT !.pc = "run"]
    /\ CliUnchanged

\* the command runs and run returns
CliCommand(o) ==
    /\ cli.pc = "run"
    /\ o \in OutcomesOf(cli.args.cmd)
    /\ cli' = [Dispatch([cli EXCEPT !.svc = o], o) EXCEPT
                 !.pc = "ret",
                 !.bought = cli.args.cmd \in {"purchase", "renew"} /\ Bought(o)]
    /\ CliUnchanged

\* Execute: the process ends with ExitCode(err), with 0 on nil; the notifier
\* goroutine ends with it
CliExit ==
    /\ cli.pc = "ret"
    /\ cli' = [cli EXCEPT !.pc = "exited", !.exit = ExitCodeOf(cli.ret)]
    /\ CliUnchanged

\* runStartupUpdateNotifier, first half: the cache is read again, and a
\* recent check (written by another invocation in between) ends the task
NotifierLoad(cache) ==
    /\ cli.pc \in {"run", "ret"}
    /\ cli.upd = "spawned"
    /\ cli' = IF Fresh(cache) THEN [CachedNotice(cli, cache) EXCEPT !.upd = "done"]
              ELSE [cli EXCEPT !.upd = "checking"]
    /\ CliUnchanged

\* what checkUpdate answers within its timeout: an error or timeout, no newer
\* release, a newer release with or without a URL
CheckResults == {"error", "current", "update", "update-url"}

\* runStartupUpdateNotifier, second half: checkUpdate, SaveCache with its
\* error dropped, the notice when an update is available
NotifierCheck(res, saved) ==
    /\ cli.pc \in {"run", "ret"}
    /\ cli.upd = "checking"
    /\ cli' = [(IF res = "update" THEN emitUpdateNotice(cli, "")
                ELSE IF res = "update-url" THEN emitUpdateNotice(cli, "url")
                ELSE cli) EXCEPT !.upd = "done"]
    /\ CliUnchanged

NextCli ==
    \/ \E a \in CliArgs : CliStart(a)
    \/ \E o \in MoneyOutcomes \cup BulkOutcomes \cup PlainOutcomes : CliCommand(o)
    \/ CliExit
    \/ \E cache \in Caches : NotifierLoad(cache)
    \/ \E res \in CheckResults, saved \in BOOLEAN : NotifierCheck(res, saved)

SpecCli == Init /\ [][NextCli]_vars

(***************************************************************************)
(* Properties of the ledger and of the purchase workflows.                 *)
(***************************************************************************)
\* the succeeded entries of an operation_id
SucceededOf(k) ==
    {i \in DOMAIN ledger : ledger[i].id = k /\ ledger[i].status = "succeeded"}

PendingOf(k) ==
    {i \in DOMAIN ledger : ledger[i].id = k /\ ledger[i].status = "pending"}

\* process p takes its reservation step in this transition
ReserveStep(p) == proc[p].pc = "reserve" /\ proc'[p].pc # "reserve"

\* C1: at every moment, whatever the interleaving of the reservations and
\* finalizations of PurchaseConfirm, PurchaseAuto and Renew, no operation_id
\* has two ledger entries with status succeeded.
C1_AtMostOneSucceeded ==
    \A i, j \in DOMAIN ledger :
        (/\ ledger[i].id = ledger[j].id
         /\ ledger[i].status = "succeeded"
         /\ ledger[j].status = "succeeded") => i = j

\* an operation_id was finalized succeeded and a later reservation of the same
\* id was answered already_succeeded
C1_Witness ==
    \E p \in Procs :
        /\ proc[p].pc = "done"
        /\ proc[p].ret = "already"
        /\ SucceededOf(proc[p].key) # {}

\* C3: for every operation_id at most one provider mutation call completes
\* successfully, and once one has, no later invocation sends another provider
\* call for that operation_id.
C3_ExactlyOnce == dupKeys = {} /\ lateKeys = {}

\* C8: a workflow reaches its provider call only through its own reservation
\* step, which appended the pending entry of the operation_id, and that entry
\* is still pending when the call is made.
C8_ReserveBeforeCall ==
    [][\A p \in Procs :
         /\ (proc'[p].pc = "call" /\ proc[p].pc # "call") =>
               /\ proc[p].pc = "reserve"
               /\ Len(ledger') = Len(ledger) + 1
               /\ ledger'[Len(ledger')].id = proc'[p].key
               /\ ledger'[Len(ledger')].status = "pending"
               /\ ledger'[Len(ledger')].amount = proc'[p].amt
         /\ (proc[p].pc = "call" /\ proc'[p].pc # "call") =>
               PendingOf(proc[p].key) # {}]_vars

\* a provider call was answered with success
C8_Witness ==
    \E p \in Procs : proc[p].pc = "finalize" /\ proc[p].perr = ""

\* C9: a reservation for an operation_id that has a pending entry returns
\* rate_limited, leaves the ledger as it is, and the workflow returns without
\* a provider call.
C9_PendingBlocks ==
    [][\A p \in Procs :
         (ReserveStep(p) /\ PendingOf(proc'[p].key) # {}) =>
            /\ ledger' = ledger
            /\ proc'[p].pc = "done"
            /\ proc'[p].ret = "rate_limited"
            /\ okKeys' = okKeys]_vars

\* a reservation was refused while another invocation held the pending entry
C9_Witness ==
    \E p, q \in Procs :
        /\ proc[p].pc = "done"
        /\ proc[p].ret = "rate_limited"
        /\ ~proc[p].pfail
        /\ proc[q].pc \in {"call", "finalize"}
        /\ proc[q].key = proc[p].key

\* C10: a reservation for an operation_id that has a succeeded entry returns
\* already_succeeded without changing the ledger, and the workflow returns
\* without a provider call (PurchaseConfirm after its mark-used step).
C10_SucceededShortCircuits ==
    [][\A p \in Procs :
         /\ (ReserveStep(p) /\ SucceededOf(proc'[p].key) # {}) =>
               /\ ledger' = ledger
               /\ IF proc[p].wf = "confirm"
                  THEN proc'[p].pc = "mark_already"
                  ELSE proc'[p].pc = "done" /\ proc'[p].ret = "already"
         /\ (proc[p].pc = "mark_already" /\ proc'[p] # proc[p]) =>
               /\ proc'[p].pc = "done"
               /\ proc'[p].ret = "already"
               /\ ledger' = ledger
               /\ okKeys' = okKeys]_vars

\* a PurchaseConfirm found its operation_id succeeded and is about to return
C10_Witness ==
    \E p \in Procs :
        /\ proc[p].pc = "mark_already"
        /\ SucceededOf(proc[p].key) # {}

\* two different invocations of PurchaseConfirm with the same token, both returned
SameTokenPair(p, q) ==
    /\ p # q
    /\ proc[p].pc = "done" /\ proc[p].wf = "confirm"
    /\ proc[q].pc = "done" /\ proc[q].wf = "confirm"
    /\ proc[p].tokId = proc[q].tokId

\* the invocation was not failed by the provider, by the post-call price check
\* or by a budget cap
Unfailed(q) == ~proc[q].pfail /\ proc[q].ret # "budget"

SucceededOnRetry(p) ==
    /\ proc[p].pc = "done" /\ proc[p].wf = "confirm"
    /\ proc[p].ret = "ok"
    /\ proc[p].tokId \in failedToks

\* C6 as stated: after a PurchaseConfirm that failed with a retryable provider
\* error and a following one with the same token that succeeded, there is
\* exactly one succeeded entry for the token's operation_key and the token has
\* been marked used.
C6_RetryEndsUsed ==
    \A p \in Procs :
        SucceededOnRetry(p) =>
            /\ Cardinality(SucceededOf(proc[p].key)) = 1
            /\ proc[p].tokId \in markedToks

\* C6 amended: ... exactly one succeeded entry for the operation_key, and the
\* token has been marked used or, when it expired before the mark-used step,
\* has been pruned; in both cases no usable token is left.
C6_RetryEndsUsedOrLapsed ==
    \A p \in Procs :
        SucceededOnRetry(p) =>
            /\ Cardinality(SucceededOf(proc[p].key)) = 1
            /\ proc[p].tokId \in markedToks \/ proc[p].lapsed
            /\ \A i \in DOMAIN tokens :
                  tokens[i].id = proc[p].tokId => tokens[i].used

\* the second call succeeded and marked the token the first call had failed on
C6_Witness ==
    \E p \in Procs : SucceededOnRetry(p) /\ proc[p].tokId \in markedToks

\* a PurchaseConfirm that returned the result of its own purchase
Purchased(p) ==
    /\ proc[p].pc = "done" /\ proc[p].wf = "confirm"
    /\ proc[p].ret = "ok"

\* C7 as stated: the amount recorded as succeeded by a successful
\* PurchaseConfirm is at most the quoted price of its token.
C7_AtMostQuoted ==
    \A p \in Procs :
        Purchased(p) =>
            \A i \in SucceededOf(proc[p].key) : ledger[i].amount <= proc[p].amt

\* C7 amended: the amount recorded as succeeded by a successful
\* PurchaseConfirm is in USD and at most max_price_per_domain (the post-call
\* re-check is the per-domain price cap, not the token's quoted price).
C7_AtMostPriceCap ==
    \A p \in Procs :
        Purchased(p) =>
            \A i \in SucceededOf(proc[p].key) :
                /\ ledger[i].amount <= MaxPricePerDomain
                /\ ledger[i].currency = "USD"

\* the provider answered a price that differs from the quote and it was recorded
C7_Witness ==
    \E p \in Procs :
        /\ Purchased(p)
        /\ \E i \in SucceededOf(proc[p].key) : ledger[i].amount # proc[p].amt

(***************************************************************************)
(* Properties of the daily caps and of the token store.                    *)
(***************************************************************************)
\* C4: over every calendar day, the reservations that were made sum to at
\* most max_daily_spend and number at most max_domains_per_day.
C4_DailyCapsHold ==
    \A d \in Days :
        /\ resSum[d] <= MaxDailySpend
        /\ resCnt[d] <= MaxDomainsPerDay

\* a day filled up to its domain cap, and one more call was made that day
C4_Witness ==
    /\ resCnt[DayStamp(now)] = MaxDomainsPerDay
    /\ calls > MaxDomainsPerDay
    /\ Len(ledger) = MaxDomainsPerDay

\* C5: no token is consumed by two consumers.
C5_ConsumedAtMostOnce == usedTwice = {}

\* with the advisory lock of the unix build a token is consumed at most once
LockedBuildSingleUse == build = "unix" => usedTwice = {}

(***************************************************************************)
(* Properties of the budget checks, the finalization and the gates.        *)
(***************************************************************************)
\* C11: a Reserve that is rejected because the daily spend cap or the daily
\* count cap would be violated returns a budget error (exit code 6) and
\* leaves the ledger exactly as it was before the call; a Reserve of a new
\* operation_id that would violate a cap is rejected that way.
C11_BudgetRejectKeepsLedger ==
    [][resLast'.n # resLast.n =>
         LET r == resLast'
             day == (now + tz) \div DayLen
             k == OperationKey(r.opType, r.domain, r.amount, now)
             over == \/ resSum[day] + r.amount > MaxDailySpend
                     \/ resCnt[day] + 1 > MaxDomainsPerDay
         IN  /\ (PendingOf(k) = {} /\ SucceededOf(k) = {} /\ over) => r.err = "budget"
             /\ r.err = "budget" =>
                   (over /\ ExitCode(r.err) = 6 /\ ledger' = ledger)]_vars

\* a reservation was refused by the count cap alone: the day holds the
\* allowed number of reservations and the amount still fits the spend cap
C11_Witness ==
    LET day == (now + tz) \div DayLen
    IN  /\ resLast.err = "budget"
        /\ resCnt[day] = MaxDomainsPerDay
        /\ resSum[day] + resLast.amount <= MaxDailySpend
        /\ Len(ledger) = MaxDomainsPerDay

\* the codes an invocation returns as an error
ErrorCodes == {"validation", "auth", "rate_limited", "provider", "internal",
               "budget", "confirmation", "safety", "partial", "cancelled"}

\* process p takes its finalization step in this transition
FinalizeStep(p) == proc[p].pc = "finalize" /\ proc'[p].pc # "finalize"

C13_OneRecordPerId ==
    \A i, j \in DOMAIN ledger : ledger[i].id = ledger[j].id => i = j

\* C13, as the code has it: a finalization rewrites a record in place (the
\* ledger keeps its length and every record its operation_id), and of two
\* records with the same operation_id the earlier one is failed -- the later
\* one is the re-reservation that followed the failed attempt.
C13_OverwritesInPlace ==
    [][/\ \A p \in Procs :
             FinalizeStep(p) =>
                 /\ Len(ledger') = Len(ledger)
                 /\ \A i \in DOMAIN ledger : ledger'[i].id = ledger[i].id
       /\ \A i, j \in DOMAIN ledger' :
             (i < j /\ ledger'[i].id = ledger'[j].id) =>
                 ledger'[i].status = "failed"]_vars

\* a failed attempt was reserved again and finalized succeeded: two records
\* of one operation_id, failed and succeeded
C13_Witness ==
    \E i, j \in DOMAIN ledger :
        /\ i < j
        /\ ledger[i].id = ledger[j].id
        /\ ledger[i].status = "failed"
        /\ ledger[j].status = "succeeded"

\* the records of ops, other than record index, that the day of record index
\* counts: created in its 24 hours, purchase or renew, pending or succeeded
OthersOfDay(ops, index) ==
    {i \in DOMAIN ops :
        /\ i # index
        /\ DayStart(ops[index].createdAt) <= ops[i].createdAt
        /\ ops[i].createdAt < DayStart(ops[index].createdAt) + DayLen
        /\ ops[i].type \in {"purchase", "renew"}
        /\ ops[i].status \in {"pending", "succeeded"}}

\* process p is about to finalize succeeded: the provider call and the
\* post-call price check went through
FinalizingSucceeded(p) ==
    /\ proc[p].pc = "finalize"
    /\ proc[p].perr = ""
    /\ CheckPrice(proc[p].rprice, proc[p].rcur) = ""

\* C14: Finalize with status succeeded re-checks the daily caps against the
\* other entries of the day plus the finalized amount; when they would be
\* violated the entry of the operation_id is written failed, never succeeded,
\* and the caller gets a budget error; otherwise the entry is succeeded.
C14_FinalizeRechecksCaps ==
    [][\A p \in Procs :
         (FinalizingSucceeded(p) /\ FinalizeStep(p)) =>
             LET k == proc[p].key
                 index == Max({i \in DOMAIN ledger : ledger[i].id = k})
                 others == OthersOfDay(ledger, index)
                 over == \/ SumAmounts(ledger, others) + proc[p].rprice > MaxDailySpend
                         \/ Cardinality(others) + 1 > MaxDomainsPerDay
             IN  IF over
                 THEN /\ ledger'[index].status = "failed"
                      /\ proc'[p].pc = "done"
                      /\ proc'[p].ret = "budget"
                      /\ ExitCode(proc'[p].ret) = 6
                 ELSE /\ ledger'[index].status = "succeeded"
                      /\ proc'[p].ret \notin ErrorCodes]_vars

\* the provider mutation went through at a price the cap admits, and the
\* re-check at finalization refused it: budget error, entry failed
C14_Witness ==
    \E p \in Procs :
        /\ proc[p].pc = "done"
        /\ proc[p].ret = "budget"
        /\ proc[p].pfail
        /\ proc[p].key \in okKeys
        /\ SucceededOf(proc[p].key) = {}
        /\ \E i \in DOMAIN ledger :
              /\ ledger[i].id = proc[p].key
              /\ ledger[i].status = "failed"
              /\ CheckPrice(ledger[i].amount, ledger[i].currency) = ""

\* C15: a token is marked used only after a verified successful provider
\* mutation: in every reachable state a token with used = true has a
\* succeeded ledger entry for its operation_key; in particular a token that
\* was only validated (its confirm is between validation and finalization,
\* or has failed) is not marked used.
C15_UsedOnlyAfterSuccess ==
    \A i \in DOMAIN tokens :
        tokens[i].used => SucceededOf(tokens[i].key) # {}

\* a confirm validated its token, finalized succeeded and marked the token
C15_Witness ==
    \E p \in Procs :
        /\ proc[p].pc = "done"
        /\ proc[p].wf = "confirm"
        /\ proc[p].ret = "ok"
        /\ \E i \in DOMAIN tokens :
              /\ tokens[i].id = proc[p].tokId
              /\ tokens[i].used
              /\ SucceededOf(tokens[i].key) # {}

\* process p is between its successful reservation and its finalization
InFlight(p) == proc[p].pc \in {"call", "finalize"}

\* C16: for any one operation_id the sequences Reserve, provider call,
\* Finalize of different invocations never interleave: at most one invocation
\* at a time is between its successful Reserve and its Finalize for that id.
C16_OneInFlightPerId ==
    \A p, q \in Procs :
        (InFlight(p) /\ InFlight(q) /\ proc[p].key = proc[q].key) => p = q

\* an invocation has its provider answer and has not finalized yet; the
\* other invocation asked for the same operation_id meanwhile and was refused
C16_Witness ==
    \E p, q \in Procs :
        /\ proc[p].pc = "finalize"
        /\ proc[p].key \in okKeys
        /\ Cardinality(PendingOf(proc[p].key)) = 1
        /\ proc[q].pc = "done"
        /\ proc[q].key = proc[p].key
        /\ proc[q].ret = "rate_limited"
        /\ ~proc[q].pfail

\* C17: check_daily_caps(now, candidate_price) aggregates every ledger entry
\* created within the calendar day of now whose kind is purchase or renew and
\* whose status is pending or succeeded, and returns a budget error exactly
\* when total_spend + candidate_price > max_daily_spend or
\* domain_count + 1 > max_domains_per_day.
C17_CapsCountPendingAndSucceeded ==
    \A price \in AvailPrices :
        LET S == {i \in DOMAIN ledger :
                    /\ DayStart(now) <= ledger[i].createdAt
                    /\ ledger[i].createdAt < DayStart(now) + DayLen
                    /\ ledger[i].type \in {"purchase", "renew"}
                    /\ ledger[i].status \in {"pending", "succeeded"}}
            over == \/ SumAmounts(ledger, S) + price > MaxDailySpend
                    \/ Cardinality(S) + 1 > MaxDomainsPerDay
        IN  CheckDailyCaps(ledger, now, price) = IF over THEN "budget" ELSE ""

\* C18: the day boundary is consistent between OperationKey and the daily-cap
\* aggregation: two instants (here the creation time of a ledger record and
\* the current time) receive the same operation-key day stamp if and only if
\* they fall in the same daily-cap window, for every time-zone offset.
C18_DayBoundaryConsistent ==
    \A i \in DOMAIN ledger :
        (DayStamp(ledger[i].createdAt) = DayStamp(now))
            <=> (DayStart(ledger[i].createdAt) = DayStart(now))

\* a new invocation of workflow wf starts in slot p in this transition
StartStep(p, wf) ==
    /\ CanStart(p)
    /\ calls' = calls + 1
    /\ proc'[p].wf = wf

\* C19: auto-purchase is effective only when enabled = true and the
\* acknowledgment hash is non-empty: in every other configuration PurchaseAuto
\* returns a safety error (exit code 8), whatever the availability lookup
\* would have answered, and returns at once: the invocation makes no ledger
\* reservation and no provider purchase call.  With the flag on and a hash
\* stored the gate lets the invocation through.
C19_AutoGateFirst ==
    [][/\ \A p \in Procs :
             (StartStep(p, "auto") /\ ~(cfgAuto /\ cfgAck # "")) =>
                 /\ proc'[p].pc = "done"
                 /\ proc'[p].ret = "safety"
                 /\ ExitCode(proc'[p].ret) = 8
                 /\ UNCHANGED <<ledger, tokens, okKeys>>
       /\ \A p \in Procs :
             (StartStep(p, "auto") /\ cfgAuto /\ cfgAck # "") =>
                 proc'[p].ret # "safety"]_vars

\* the flag is on, the acknowledgment hash is empty, and a PurchaseAuto was
\* turned away
C19_Witness ==
    /\ cfgAuto
    /\ cfgAck = ""
    /\ ledger = <<>>
    /\ \E p \in Procs :
          proc[p].pc = "done" /\ proc[p].wf = "auto" /\ proc[p].ret = "safety"

\* C20: settings auto-purchase enable rejects every phrase other than the
\* fixed acknowledgment phrase with a safety error and leaves the enabled
\* flag and the acknowledgment hash as they were; only the exact phrase sets
\* enabled = true and stores a non-empty hash of the phrase.
C20_OnlyExactPhraseEnables ==
    setLast.op = "enable" =>
        IF setLast.ack = AckPhrase
        THEN /\ setLast.err = ""
             /\ cfgAuto
             /\ cfgAck # ""
             /\ cfgAck = HashAcknowledgment(AckPhrase)
        ELSE /\ setLast.err = "safety"
             /\ ExitCode(setLast.err) = 8
             /\ cfgAuto = setLast.auto
             /\ cfgAck = setLast.hash

\* auto-purchase was disabled after having been enabled, and an enable with
\* the phrase in lower case was then rejected: the flag is still off and the
\* stored hash still there
C20_Witness ==
    /\ setLast.op = "enable"
    /\ setLast.ack \notin {AckPhrase, ""}
    /\ setLast.err = "safety"
    /\ ~cfgAuto
    /\ cfgAck = HashAcknowledgment(AckPhrase)

(***************************************************************************)
(* Properties of the token store called directly.                          *)
(***************************************************************************)
\* consumer p finishes its transaction on the token store in this transition
TokDoneStep(p) == cons[p].pc = "locked" /\ cons'[p].pc = "done"

\* the tokens of a store with the given id
WithId(ts, tokenID) == {i \in DOMAIN ts : ts[i].id = tokenID}

\* C21: a token is consumed only with an exactly matching domain and only
\* while the clock has not passed its expires_at, which is issued_at plus 10
\* minutes: every attempt with another domain or after expiry returns a
\* confirmation error and does not consume the token; an attempt that
\* succeeds had the domain of the token and a clock within its lifetime.
C21_DomainAndExpiryGuard ==
    [][\A p \in Procs :
         (TokDoneStep(p) /\ cons[p].op = "use") =>
             LET c == cons[p]
                 mine == WithId(c.loaded, c.tokId)
                 bad == \E i \in mine :
                           \/ c.loaded[i].domain # c.dom
                           \/ c.t > c.loaded[i].issuedAt + TokenTTL
             IN  /\ \A i \in mine :
                       c.loaded[i].expiresAt = c.loaded[i].issuedAt + TokenTTL
                 /\ (bad \/ mine = {}) =>
                       /\ cons'[p].ret = "confirmation"
                       /\ usedOnce' = usedOnce
                       /\ MarkedIn(tokens') \subseteq MarkedIn(tokens)
                 /\ cons'[p].ret = "ok" =>
                       /\ ~bad
                       /\ mine # {}
                       /\ c.tokId \in MarkedIn(tokens')]_vars

\* one consumer was refused the token for its domain, another, with the
\* domain of the token, after the last minute of the token; nobody consumed it
C21_Witness ==
    \E p, q \in Procs :
        /\ cons[p].pc = "done" /\ cons[q].pc = "done"
        /\ cons[p].op = "use" /\ cons[q].op = "use"
        /\ cons[p].tokId = cons[q].tokId
        /\ cons[p].ret = "confirmation" /\ cons[q].ret = "confirmation"
        /\ cons[p].dom \notin Domains
        /\ cons[q].dom \in Domains
        /\ cons[q].t > StartNow + TokenTTL
        /\ usedOnce = {}

\* C22: expired or used tokens are pruned on every access: after any
\* token-store operation (issue, validate-and-consume), whether it succeeds
\* or returns a confirmation error, the persisted store holds no token that
\* was already expired or already used when the operation read the store
\* (stated for the build whose lock serializes the operations).
C22_PrunedOnEveryAccess ==
    [][build = "unix" =>
         \A p \in Procs :
             TokDoneStep(p) =>
                 \A i \in DOMAIN cons[p].loaded :
                     (\/ cons[p].loaded[i].used
                      \/ cons[p].t > cons[p].loaded[i].expiresAt)
                         => WithId(tokens', cons[p].loaded[i].id) = {}]_vars

\* C23: on the build whose lockFile is a no-op, the mutations of the token
\* store are still serialized within the process: no two callers are between
\* their read and their write at the same time, and of the concurrent
\* consumers of one token at most one succeeds.
C23_SerializedWithoutFileLock ==
    build = "windows" =>
        /\ \A p, q \in Procs :
              (cons[p].pc = "locked" /\ cons[q].pc = "locked") => p = q
        /\ usedTwice = {}

(***************************************************************************)
(* Properties of the retry engine, the limiter and the router.             *)
(***************************************************************************)
\* the answers of fn before the last one were all retryable errors
RetriedSoFar ==
    \A k \in 1..(Len(rt.hist) - 1) :
        rt.hist[k].err # NoErr /\ rt.hist[k].retryable

\* the stop conditions of Retry when limit invocations of fn are allowed
RetryStops(limit) ==
    /\ rt.pc # "idle" => Len(rt.hist) <= limit
    /\ RetriedSoFar
    /\ rt.pc = "done" =>
          /\ Len(rt.hist) >= 1
          /\ LET made == Len(rt.hist)
                 a == rt.hist[made]
             IN  /\ a.err = NoErr => rt.ret = NoErr
                 /\ (a.err # NoErr /\ ~a.retryable) => rt.ret = a.err
                 /\ (a.err # NoErr /\ a.retryable /\ made = limit) =>
                       /\ rt.ret.code = "rate_limited"
                       /\ rt.ret.cause = a.err.code
                 /\ (a.err # NoErr /\ a.retryable /\ made < limit) =>
                       rt.ret = CtxErr /\ rt.fired # ""

C25_CancelledNotExhausted ==
    (rt.pc = "done" /\ rt.fired # "") =>
        /\ rt.ret # ExhaustedErr(rt.hist[Len(rt.hist)].err)
        /\ rt.ret = CtxErr
        /\ Len(rt.hist) = rt.firedMade

\* the part of C25 the code keeps: once the deadline has fired fn is not
\* invoked again, and a deadline that fires in the backoff, or before an
\* attempt that is not the last one is over, gives the cancellation error
CancelledStopsAttempts ==
    /\ rt.fired # "" => Len(rt.hist) = rt.firedMade
    /\ (rt.pc = "done" /\ rt.fired # "" /\ rt.ret # CtxErr) =>
          /\ rt.fired = "http"
          /\ rt.firedMade = rt.n
          /\ rt.ret.code = "rate_limited"

\* the suspension points of a call under Retry: Limiter.Wait, the HTTP
\* request, the backoff sleep
SuspensionPoints == {"limiter", "http", "backoff"}

\* C26: whichever suspension point and whichever attempt the operation was in
\* when its deadline fired, the error it surfaces is the timeout error and
\* not a provider (or any other) error.
C26_TimeoutSurfaces ==
    \A at \in SuspensionPoints, k \in 1..RetryAttempts :
        (rt.pc = "done" /\ rt.fired = at /\ rt.firedMade = k) =>
            rt.ret.code = "cancelled"

\* the goroutines that have been given a slot
Slotted == {c \in Callers : lim.g[c].pc \in {"slotted", "sleeping", "done"}}

\* C27: slots are granted in the order the calls of Wait arrived, whatever
\* the interleaving of the callers, and a call returns at its slot or when
\* the deadline of its caller expires, whichever comes first.
C27_FifoByArrival ==
    /\ \A a, b \in Slotted :
          lim.g[a].arr < lim.g[b].arr => lim.g[a].slot <= lim.g[b].slot
    /\ \A c \in Callers :
          lim.g[c].pc = "done" =>
             /\ lim.g[c].ret = NoErr => lim.g[c].at >= lim.g[c].slot
             /\ lim.g[c].ret = CtxErr =>
                   lim.g[c].at >= lim.g[c].deadline /\ lim.g[c].at <= lim.g[c].slot

\* what the code keeps of C27: the slots are distinct and LimInterval apart,
\* and a call returns nil no earlier than its slot, or the cancellation error
\* once its deadline has expired and no later than its slot
SlotsApartAndTimely ==
    /\ \A a, b \in Slotted :
          a # b => \/ lim.g[a].slot + LimInterval <= lim.g[b].slot
                   \/ lim.g[b].slot + LimInterval <= lim.g[a].slot
    /\ \A c \in Callers :
          lim.g[c].pc = "done" =>
             /\ lim.g[c].ret = NoErr => lim.g[c].at >= lim.g[c].slot
             /\ lim.g[c].ret = CtxErr =>
                   lim.g[c].at >= lim.g[c].deadline /\ lim.g[c].at <= lim.g[c].slot

\* the number of times a call was observed in the last routed workflow
Observed(v) == Cardinality({k \in DOMAIN route.seen : route.seen[k] = v})

\* C28: when the v2 call fails the v1 call is made, and when both fail the
\* error the caller gets is the failure of v1, never that of v2.
C28_V1FailureSurfaces ==
    (Observed("v2") > 0 /\ route.v2 # NoErr) =>
        /\ route.seen = <<"v2", "v1">>
        /\ route.v1 # NoErr =>
              /\ route.err = route.v1
              /\ route.v1 # route.v2 => route.err # route.v2
              /\ route.ver = "" /\ route.out = ""

\* v2 answered 500 and v1 then 401: the caller got the auth error of v1
C28_Witness ==
    /\ route.seen = <<"v2", "v1">>
    /\ route.v2 = do("500")
    /\ route.v1 = do("401")
    /\ route.err.code = "auth"

SeenFor(op) == {rnw.seen[i].cand : i \in {j \in DOMAIN rnw.seen : rnw.seen[j].op = op}}

\* C31: a candidate whose v2 detail has no parseable renewal price or no
\* expiration gets no v2 renew call; when that is so for every candidate no
\* v2 renew call is sent at all, the renewal goes to v1 exactly once and a
\* successful result is annotated v1.
C31_UnparseableDetailFallsBack ==
    rnw.pc = "done" =>
        /\ \A k \in DOMAIN rnw.cands :
              (k \in SeenFor("detail") /\ ~Parseable(rnw.det[k])) =>
                  k \notin SeenFor("renewV2")
        /\ (rnw.cands # <<>> /\ \A k \in DOMAIN rnw.cands : ~Parseable(rnw.det[k])) =>
              /\ SeenFor("renewV2") = {}
              /\ SeenFor("detail") = DOMAIN rnw.cands
              /\ Cardinality({i \in DOMAIN rnw.seen :
                                 rnw.seen[i].op \in {"renewV1", "renewAsShopper"}}) = 1
              /\ rnw.err = rnw.v1
              /\ rnw.err = NoErr => rnw.ver = "v1"

\* the detail has an expiration and a renewal block without a price, v1
\* renewed, and the result is annotated v1
C31_Witness ==
    /\ rnw.pc = "done"
    /\ Len(rnw.cands) = 1
    /\ rnw.det[1].err = NoErr /\ rnw.det[1].renewal /\ rnw.det[1].price.type = "nil"
    /\ TrimSpace(rnw.det[1].expiresAt) # ""
    /\ rnw.seen = <<[op |-> "detail", cand |-> 1], [op |-> "renewV1", cand |-> 0]>>
    /\ rnw.ver = "v1"

\* the bulk call ran its pool and has returned
PoolDone == pool.pc = "done" /\ pool.err.code # "provider"

\* the inputs whose lookup failed
FailedInputs == {i \in DOMAIN pool.looked : ~pool.looked[i].ok}

\* C32: whatever the inputs, the number of workers and the order in which
\* the lookups complete, position i of the output holds the item of input i,
\* every input was looked up exactly once, and the records emitted are the
\* items in that order.
C32_ResultsInInputOrder ==
    PoolDone =>
        /\ Len(pool.out) = Len(pool.inputs)
        /\ \A i \in DOMAIN pool.inputs :
              /\ pool.looked[i].n = 1
              /\ pool.out[i].index = i - 1
              /\ pool.out[i].input = pool.inputs[i]
              /\ pool.out[i].success = pool.looked[i].ok
        /\ pool.recs = pool.out

\* three inputs and two workers; the lookup of index 1 completed first and
\* failed, and the output is still in the order of the input
C32_Witness ==
    /\ PoolDone
    /\ pool.inputs = <<"one.com", "two.com", "one.com">>
    /\ Len(pool.w) = 2
    /\ pool.arrival = <<1, 0, 2>>
    /\ FailedInputs = {2}
    /\ pool.recs[2] = [index |-> 1, input |-> "two.com", success |-> FALSE]

\* C33: a bulk call returns the partial error (exit code 9) exactly when at
\* least one item failed, with failed the number of failed items and total
\* the number of inputs, and the items, the failed ones included, are still
\* returned and emitted.
C33_PartialIffSomeFailed ==
    PoolDone =>
        /\ (pool.err.code = "partial") <=> (FailedInputs # {})
        /\ (ExitCode(pool.err.code) = 9) <=> (FailedInputs # {})
        /\ FailedInputs = {} => pool.err = NoPartial /\ ExitCode(pool.err.code) = 0
        /\ FailedInputs # {} =>
              /\ pool.err.failed = Cardinality(FailedInputs)
              /\ pool.err.total = Len(pool.inputs)
        /\ Len(pool.recs) = Len(pool.inputs)
        /\ \A i \in FailedInputs :
              pool.recs[i].input = pool.inputs[i] /\ ~pool.recs[i].success

\* two of three lookups failed: partial with failed = 2 and total = 3, and
\* the item that succeeded is reported next to the failed ones
C33_Witness ==
    /\ PoolDone
    /\ Len(pool.inputs) = 3
    /\ pool.err = [code |-> "partial", failed |-> 2, total |-> 3]
    /\ Cardinality({i \in DOMAIN pool.recs : pool.recs[i].success}) = 1
    /\ ~pool.cancelled

\* the pool is at rest: no worker is left, both channels are closed and
\* empty, and there is one item per input
PoolAtRest ==
    /\ \A k \in DOMAIN pool.w : pool.w[k].pc = "exited"
    /\ pool.jobsClosed /\ pool.resultsClosed
    /\ pool.results = <<>>
    /\ Len(pool.out) = Len(pool.inputs)
    /\ \A i \in DOMAIN pool.inputs : pool.looked[i].n = 1 /\ pool.out[i].index = i - 1

\* C40: a bulk call that has started always returns, for every number of
\* inputs (none included), every concurrency asked for (below one counts as
\* one) and every pattern of failures or cancellation; when it has returned
\* all workers have exited, both channels are closed and there is exactly one
\* result per input.
C40_PoolTerminates ==
    /\ [](pool.pc # "idle" => Len(pool.w) >= 1 \/ pool.err.code = "provider")
    /\ [](pool.pc = "done" => PoolAtRest)
    /\ (pool.pc = "feed") ~> (pool.pc = "done")

\* a call with concurrency 0 on MaxInputs inputs, cancelled on the way, has
\* returned with its one worker gone
C40_Witness ==
    /\ PoolDone
    /\ pool.conc = 0
    /\ Len(pool.w) = 1
    /\ Len(pool.inputs) = MaxInputs
    /\ pool.cancelled
    /\ PoolAtRest

\* the nine codes of errors.go, an AppError without code, a code the switch
\* does not list
KnownCodes == {"validation", "auth", "rate_limited", "provider", "internal",
               "budget", "confirmation", "safety", "partial"}

ChainCodes == KnownCodes \cup {"", "teapot"}

\* nil, untagged errors, AppErrors, and both kinds around one another
ErrorValues ==
    {NilErr, PlainErr, Wrapping(PlainErr, PlainErr)}
        \cup {AppErr(c) : c \in ChainCodes}
        \cup {Wrapping(PlainErr, AppErr(c)) : c \in ChainCodes}
        \cup {Wrapping(AppErr(c), PlainErr) : c \in ChainCodes}
        \cup {Wrapping(AppErr(c), AppErr(d)) : c \in ChainCodes, d \in ChainCodes}

\* the errors whose kind is code: the first AppError of the chain carries it
OfKind(code) == {e \in ErrorValues : As(e).ok /\ As(e).code = code}

ExitCodes == {0, 2, 3, 4, 5, 6, 7, 8, 9}

\* C34: ExitCode is total and closed.  It answers 0 for no error, 2 for
\* validation, 3 auth, 4 rate_limited, 5 provider or internal, 6 budget,
\* 7 confirmation, 8 safety, 9 partial, and 5 for every error of an unknown
\* kind or without kind; and every invocation exits with the code ExitCode
\* gives for the error run returned, which is one of these nine numbers.
C34_ExitCodesTotalAndClosed ==
    /\ ExitCodeOf(NilErr) = 0
    /\ \A e \in OfKind("validation") : ExitCodeOf(e) = 2
    /\ \A e \in OfKind("auth") : ExitCodeOf(e) = 3
    /\ \A e \in OfKind("rate_limited") : ExitCodeOf(e) = 4
    /\ \A e \in OfKind("provider") \cup OfKind("internal") : ExitCodeOf(e) = 5
    /\ \A e \in OfKind("budget") : ExitCodeOf(e) = 6
    /\ \A e \in OfKind("confirmation") : ExitCodeOf(e) = 7
    /\ \A e \in OfKind("safety") : ExitCodeOf(e) = 8
    /\ \A e \in OfKind("partial") : ExitCodeOf(e) = 9
    /\ \A e \in ErrorValues \ {NilErr} :
          ~As(e).ok \/ As(e).code \notin KnownCodes => ExitCodeOf(e) = 5
    /\ \A e \in ErrorValues : ExitCodeOf(e) \in ExitCodes
    /\ cli.pc = "exited" =>
          /\ cli.exit \in ExitCodes
          /\ cli.exit = ExitCodeOf(cli.ret)
          /\ cli.ret \in ErrorValues
          /\ (cli.exit = 0) <=> (cli.ret = NilErr)

\* an invocation ended on an error without kind: the ledger file failed
C34_Witness ==
    /\ cli.pc = "exited"
    /\ cli.ret = PlainErr
    /\ cli.exit = 5
    /\ cli.svc.reserve = "io"

\* the envelopes on the result channel
Envelopes == {cli.out[i] : i \in {j \in DOMAIN cli.out : cli.out[j].kind = "envelope"}}

\* C35: every emitted envelope carries a result or an error and never both,
\* and an invocation that emitted an error envelope exits with the non-zero
\* code of the kind that envelope names.
C35_ResultXorError ==
    /\ \A env \in Envelopes : env.result # env.error
    /\ \A env \in Envelopes : env.error => env.code \in KnownCodes
    /\ cli.pc = "exited" =>
          \A env \in Envelopes :
              env.error => cli.exit # 0 /\ cli.exit = ExitCode(env.code)

\* a purchase refused by the budget: one error envelope, exit code 6
C35_Witness ==
    /\ cli.pc = "exited"
    /\ cli.args.cmd = "purchase"
    /\ Len(cli.out) = 1
    /\ cli.out[1].error /\ ~cli.out[1].result
    /\ cli.out[1].code = "budget" /\ cli.exit = 6

\* the texts of the lines on a channel
LinesOn(ch) == {ch[i].text : i \in {j \in DOMAIN ch : ch[j].kind = "log"}}

\* C36: whatever the interleaving of the command with the startup update
\* notifier, the result channel holds nothing but envelopes, and the error
\* lines, warnings and update notices are all on the log channel, which
\* holds no envelope.
C36_ChannelsApart ==
    /\ \A i \in DOMAIN cli.out : cli.out[i].kind = "envelope"
    /\ \A i \in DOMAIN cli.errOut : cli.errOut[i].kind = "log"
    /\ LinesOn(cli.out) = {}

\* the notifier goroutine wrote its notice after the command had written its
\* error envelope and its error line
C36_Witness ==
    /\ cli.upd = "done"
    /\ cli.args.cache = "stale"
    /\ Len(cli.out) = 1 /\ cli.out[1].error
    /\ Len(cli.errOut) = 4
    /\ cli.errOut[1].text = "warning"
    /\ cli.errOut[2].text = "error"
    /\ cli.errOut[3].text = "update available"
    /\ cli.errOut[4].text = "release"

\* the exit code of an invocation that reached the dispatch with arguments a
\* and whose service call went as o
ExitOf(a, o) ==
    ExitCodeOf(Dispatch([IdleCli EXCEPT !.args = a, !.svc = o], o).ret)

\* the same service call with the ledger written at finalizeOperation
LedgerWritten(o) == [o EXCEPT !.finalize = IF @ = "io" THEN "ok" ELSE @]

\* the exit code is a function of the arguments and of the service call:
\* no outcome and no timing of the update notifier changes it
UpdateCheckNeverAffectsExit ==
    cli.pc = "exited" /\ cli.args.cmd # "" /\ cli.args.cfgOK =>
        cli.exit = ExitOf(cli.args, cli.svc)

\* C37: best-effort tasks never affect the exit code.  Whatever the update
\* notifier does and whenever, and whether or not the ledger write that
\* records the finished operation fails, the invocation exits with the code
\* it has when that write succeeds; the failed write is a warning on the
\* log channel, not an error envelope.
C37_BestEffortNeverAffectsExit ==
    cli.pc = "exited" /\ cli.args.cmd # "" /\ cli.args.cfgOK =>
        /\ cli.exit = ExitOf(cli.args, LedgerWritten(cli.svc))
        /\ cli.bought /\ cli.svc.finalize = "io" =>
              \A env \in Envelopes : ~env.error

\* the local midnights of the days the ledger's entries were created on
LedgerDays == {DayStart(ledger[i].createdAt) : i \in DOMAIN ledger}

\* the entries the daily aggregation counts for the day that starts at dayStart
Counted(dayStart) == {i \in DOMAIN ledger : CountsToday(ledger[i], dayStart)}

\* C38: in every reachable ledger, whatever the interleaving of the
\* reservations and finalizations of concurrent invocations, the purchase
\* and renew entries of a day that are pending or succeeded sum to at most
\* max_daily_spend and are at most max_domains_per_day.
C38_LedgerWithinCaps ==
    \A dayStart \in LedgerDays :
        /\ SumAmounts(ledger, Counted(dayStart)) <= MaxDailySpend
        /\ Cardinality(Counted(dayStart)) <= MaxDomainsPerDay

\* two counted entries on one day, one of them finalized as succeeded at a
\* provider price above the reserved amount, next to a synthetic entry
C38_Witness ==
    /\ \E i \in DOMAIN ledger : ledger[i].type = "unknown" /\ ledger[i].id = LostKey
    /\ \E dayStart \in LedgerDays :
          /\ Cardinality(Counted(dayStart)) = MaxDomainsPerDay
          /\ \E i \in Counted(dayStart) :
                /\ ledger[i].status = "succeeded"
                /\ ledger[i].amount = PriceMid
                /\ ledger[i].id[3] = PriceLow

\* a step of a PurchaseDryRun of p, or of a Renew of p that is a dry run: by
\* its flag, or for want of the approval
DryRunStep(p) ==
    \/ \E d \in Domains, a \in AvailOutcomes : DryRunCheck(p, d, a)
    \/ DryRunIssue(p)
    \/ \E d \in Domains, f \in BOOLEAN, aa \in BOOLEAN :
          (f \/ ~aa) /\ RenewStart(p, d, f, aa)

\* C39: a dry run has no financial side effect.  No step of PurchaseDryRun
\* or of a dry-run Renew writes the ledger or reaches the reservation and the
\* provider call; the dry-run Renew writes no token either; PurchaseDryRun
\* goes on to issue its token exactly when the domain is available and both
\* CheckPrice and CheckDailyCaps pass, and tokens are issued by that step only.
C39_DryRunNoSideEffect ==
    [][/\ \A p \in Procs :
            DryRunStep(p) =>
                /\ ledger' = ledger
                /\ okKeys' = okKeys /\ dupKeys' = dupKeys
                /\ lateKeys' = lateKeys /\ failedToks' = failedToks
                /\ proc'[p].pc \in {"dry_issue", "done"}
                /\ proc'[p].wf = "renew" => tokens' = tokens /\ nextTok' = nextTok
       /\ \A p \in Procs, d \in Domains, a \in AvailOutcomes :
            DryRunCheck(p, d, a) =>
                /\ tokens' = tokens /\ nextTok' = nextTok
                /\ proc'[p].pc = "dry_issue" <=>
                      /\ a.err = "" /\ a.available
                      /\ CheckPrice(a.price, a.currency) = ""
                      /\ CheckDailyCaps(ledger, now, a.price) = ""
       /\ nextTok' # nextTok \/ Len(tokens') > Len(tokens) =>
            \E q \in Procs : proc[q].pc = "dry_issue" /\ proc[q].wf = "dryrun"
                                /\ DryRunIssue(q)]_vars

\* a PurchaseDryRun issued its token and a Renew ended as a dry run, and the
\* ledger is still empty and no provider call was made
C39_Witness ==
    /\ ledger = <<>>
    /\ okKeys = {} /\ lateKeys = {} /\ failedToks = {}
    /\ Len(tokens) = 1
    /\ \E p \in Procs, q \in Procs :
          /\ proc[p].pc = "done" /\ proc[p].wf = "dryrun" /\ proc[p].ret = "ok"
          /\ proc[p].tokId = tokens[1].id
          /\ proc[q].pc = "done" /\ proc[q].wf = "renew" /\ proc[q].ret = "dry_run"
====
